---- MODULE Spec2Model ----
(***************************************************************************)
(* Model of SpotifyAPI (src/src/internal/spotify.ts): the token cache, the  *)
(* token mint with its secret pool, and the authenticated, paginated        *)
(* catalog operations.                                                      *)
(*                                                                          *)
(* A caller is one invocation chain of a catalog operation.  JavaScript     *)
(* runs each chain atomically between two awaits on the network, so every   *)
(* action below is the code from one network reply (or from the call) up    *)
(* to the next network request; the reply itself is the action's input.     *)
(* Time is Date.now() in milliseconds.                                      *)
(***************************************************************************)
EXTENDS Integers, Sequences, FiniteSets, TLC

\* ------------------------------------------------------------------ bounds
MaxTicks == 2
MaxPool == 2
MaxPages == 3
MaxRounds == 2
MaxItems == 2
MaxBad == 1
MaxCached == 3

\* --------------------------------------------------------------- constants
CACHE_DURATION == 30 * 60 * 1000
FALLBACK_LIFETIME == 1000 * 60 * 60
FALLBACK_MARGIN == 5000

Undef == "undefined"

\* An optional value: None is null/undefined, Some(x) holds x.
None == <<>>
Some(x) == <<x>>

Callers == {"c1", "c2"}
Ops == {"search", "getTrack", "getPlaylist", "getAlbum", "getRecommendations"}
PagedOps == {"getPlaylist", "getAlbum"}

\* The steps the clock is advanced by: 1 ms, and what brings the secret cache
\* to the edge of its TTL.
TickSteps == {1, CACHE_DURATION - 1}

SeqsUpTo(S, n) == UNION { [1..k -> S] : k \in 0..n }

\* ----------------------------------------------------------------- secrets
\* interface SpotifySecret: three entries, two sharing a version and two
\* sharing bytes.
SecretUniverse ==
  { [version |-> 1, secret |-> <<10, 20>>],
    [version |-> 1, secret |-> <<11, 20>>],
    [version |-> 2, secret |-> <<10, 20>>] }

\* The entries the registry serves, two versions of the same bytes.
ServedSecrets ==
  { [version |-> 1, secret |-> <<10, 20>>],
    [version |-> 2, secret |-> <<10, 20>>] }

\* A registry entry that fails the shape check: it has no numeric version.
BadSecret == [secret |-> <<10, 20>>]

\* What the registry may answer: a transport error, a non-2xx status, a JSON
\* value that is no array, or an array of entries.
RegistryErrors == { [error |-> "neterr"], [error |-> "http500"], [error |-> "notarray"] }
RegistryReplies(entries) ==
  RegistryErrors \cup { [array |-> a] : a \in SeqsUpTo(entries, MaxPool) }

Fail == [fail |-> TRUE]

ValidSecret(s) == "version" \in DOMAIN s /\ "secret" \in DOMAIN s

\* Variant of fetchSecretsFromRemote: invalid entries are skipped.
FetchSecretsFromRemote_SkipsInvalid(reply) ==
  IF reply \in RegistryErrors THEN Fail
  ELSE IF SelectSeq(reply.array, ValidSecret) = <<>> THEN Fail
  ELSE [secrets |-> SelectSeq(reply.array, ValidSecret)]

\* fetchSecretsFromRemote: the validated array, or Fail for every throw.
FetchSecretsFromRemote(reply) ==
  IF reply \in RegistryErrors THEN Fail
  ELSE IF Len(reply.array) = 0 THEN Fail
  ELSE IF \E i \in 1..Len(reply.array) : ~ValidSecret(reply.array[i]) THEN Fail
  ELSE [secrets |-> reply.array]

\* Variant of removeFailedSecret: entries are compared by version only.
RemoveFailedSecret_ByVersion(cs, failedSecret) ==
  LET Keep(x) == x.version # failedSecret.version
  IN SelectSeq(cs, Keep)

\* Variant of removeFailedSecret: entries are compared by bytes only.
RemoveFailedSecret_ByBytes(cs, failedSecret) ==
  LET Keep(x) == x.secret # failedSecret.secret
  IN SelectSeq(cs, Keep)

\* removeFailedSecret on a non-null cache: drops every entry equal to
\* failedSecret by version and bytes.
RemoveFailedSecret(cs, failedSecret) ==
  LET Keep(x) == ~(x.version = failedSecret.version /\ x.secret = failedSecret.secret)
  IN SelectSeq(cs, Keep)

\* ------------------------------------------------------------ signing key
\* a ^ b on non-negative integers below 2^31.
RECURSIVE Xor(_, _)
Xor(a, b) ==
  IF a = 0 THEN b
  ELSE IF b = 0 THEN a
  ELSE (((a % 2) + (b % 2)) % 2) + 2 * Xor(a \div 2, b \div 2)

\* The decimal digits of n, as String(n) writes them.
RECURSIVE Digits(_)
Digits(n) == IF n < 10 THEN <<n>> ELSE Digits(n \div 10) \o <<n % 10>>

\* token.join(""): the decimal digits of the numbers, one after the other.
RECURSIVE Join(_)
Join(nums) == IF nums = <<>> THEN <<>> ELSE Digits(Head(nums)) \o Join(Tail(nums))

\* Buffer.from(str, "utf8").toString("hex") on a string of decimal digits: the
\* character of digit d is the byte 0x30 + d, two hex digits 3 and d.
RECURSIVE HexOfDigits(_)
HexOfDigits(ds) == IF ds = <<>> THEN <<>> ELSE <<3, Head(ds)>> \o HexOfDigits(Tail(ds))

\* Variant of calculateToken: the index counts from one.
CalculateToken_OneBased(hex, version) ==
  HexOfDigits(Join([i \in 1..Len(hex) |->
    Xor(hex[i], (IF version = 0 THEN 0 ELSE (i % version) + 9))]))

\* calculateToken: the key (its hex digits) of the secret's bytes and version.
\* The array index i is zero-based; with version 0, i % version is NaN and
\* v ^ NaN is v.
CalculateToken(hex, version) ==
  HexOfDigits(Join([i \in 1..Len(hex) |->
    Xor(hex[i], (IF version = 0 THEN 0 ELSE ((i - 1) % version) + 9))]))

\* totp.generate({timestamp}): HMAC-SHA1 over the counter of 30-second periods
\* under the key, kept as the pair that determines it.
Totp(key, timestamp) == [key |-> key, counter |-> timestamp \div 30000]

\* The query of the token URL getAccessTokenUrl builds from the key, the
\* selected secret's version, the client's time (ms) and the server's (s).
TokenUrl(key, version, cTime, sTime) ==
  [sTime |-> sTime, cTime |-> cTime,
   totp |-> Totp(key, cTime), totpServer |-> Totp(key, sTime * 1000),
   totpVer |-> 5, buildVer |-> version]

\* ------------------------------------------------------------------- token
\* The token each endpoint hands out.
TokenOf(src) ==
  CASE src = "totp"        -> "tokW"
    [] src = "credentials" -> "tokC"
    [] src = "html"        -> "tokH"

\* Variants of isTokenExpired: a token is expired from its expiry instant on;
\* every token counts as expired.
IsTokenExpiredAt_Ge(tok, time) ==
  \/ tok = None
  \/ /\ tok[1].expiresAfter # None
     /\ time >= tok[1].expiresAfter[1]

IsTokenExpiredAt_Always(tok, time) == TRUE

\* isTokenExpired on a held token (None: never minted) at a time.  expiresAfter
\* is Some(n), or None for undefined/NaN, with which every comparison is false.
IsTokenExpiredAt(tok, time) ==
  \/ tok = None
  \/ /\ tok[1].expiresAfter # None
     /\ time > tok[1].expiresAfter[1]

\* --------------------------------------------------------- catalog payloads
\* A raw track entry of a catalog payload.  A field the payload lacks is a field
\* the record lacks; "bare" stands for a null entry or one without any field read.
\* id is the entry's position in the upstream collection.
TrackKinds == {"ok", "bare", "noName", "emptyName", "noArtists", "emptyArtists", "noAlbum"}

RawTrack(i, k) ==
  CASE k = "ok"           -> [id |-> i, name |-> "N", artists |-> <<"ar">>, album |-> <<"img">>]
    [] k = "bare"         -> [id |-> i]
    [] k = "noName"       -> [id |-> i, artists |-> <<"ar">>, album |-> <<"img">>]
    [] k = "emptyName"    -> [id |-> i, name |-> "", artists |-> <<"ar">>, album |-> <<"img">>]
    [] k = "noArtists"    -> [id |-> i, name |-> "N", album |-> <<"img">>]
    [] k = "emptyArtists" -> [id |-> i, name |-> "N", artists |-> <<>>, album |-> <<"img">>]
    [] k = "noAlbum"      -> [id |-> i, name |-> "N", artists |-> <<"ar">>]

Has(m, f) == f \in DOMAIN m

\* Variant of the filter: an empty artist array is dropped as well.
NameAndArtists_NonEmpty(m) ==
  Has(m, "name") /\ m.name # "" /\ Has(m, "artists") /\ m.artists # <<>>

\* m?.name && m?.artists : a missing or empty name is falsy, an array is truthy.
NameAndArtists(m) == Has(m, "name") /\ m.name # "" /\ Has(m, "artists")

Map(s, F(_)) == [i \in 1..Len(s) |-> F(s[i])]

NullResult == [kind |-> "null"]
Pending == [kind |-> "pending"]

\* The record getTrack and the playlist map build; reading album.images of a
\* missing album throws.
Throws(m) == ~Has(m, "album")
TrackRecord(m) ==
  [f \in (DOMAIN m \cap {"id", "name", "artists"}) \cup {"images"} |->
     IF f = "images" THEN m.album ELSE m[f]]

\* The record the album map builds: images come from the album itself.
AlbumTrackRecord(m) ==
  [f \in (DOMAIN m \cap {"id", "name", "artists"}) \cup {"images"} |->
     IF f = "images" THEN <<"albumimg">> ELSE m[f]]

\* The hit search and getRecommendations build; artists.map on a missing
\* artist list and album.images on a missing album throw.
HitThrows(m) == ~Has(m, "artists") \/ ~Has(m, "album")
SearchHit(m) ==
  [id |-> m.id,
   title |-> IF Has(m, "name") THEN m.name ELSE Undef,
   artist |-> m.artists,
   thumbnail |-> IF m.album # <<>> THEN m.album[1] ELSE "null"]

\* Variant of search: an empty items array is answered with null, as the
\* playlist and album operations do.
HitsResult_NullOnEmpty(body) ==
  IF ~Has(body, "items") THEN NullResult
  ELSE IF Len(body.items) = 0 THEN NullResult
  ELSE IF \E i \in 1..Len(body.items) : HitThrows(body.items[i]) THEN NullResult
  ELSE [kind |-> "list", items |-> Map(body.items, SearchHit)]

\* search / getRecommendations on a 2xx body: items.map, null when it throws.
HitsResult(body) ==
  IF ~Has(body, "items") THEN NullResult
  ELSE IF \E i \in 1..Len(body.items) : HitThrows(body.items[i]) THEN NullResult
  ELSE [kind |-> "list", items |-> Map(body.items, SearchHit)]

\* getTrack on a 2xx body.
TrackResult(body) ==
  IF ~Has(body, "track") \/ Throws(body.track) THEN NullResult
  ELSE [kind |-> "record", track |-> TrackRecord(body.track)]

\* The tail of getPlaylist / getAlbum: filter, map, and the record, null when
\* no track is left or building the record throws.
Finalize(o, acc, headerOk) ==
  LET kept == SelectSeq(acc, NameAndArtists) IN
  IF o = "getPlaylist" /\ \E i \in 1..Len(kept) : Throws(kept[i]) THEN NullResult
  ELSE IF Len(kept) = 0 THEN NullResult
  ELSE IF ~headerOk THEN NullResult
  ELSE [kind |-> "collection",
        tracks |-> IF o = "getPlaylist" THEN Map(kept, TrackRecord)
                   ELSE Map(kept, AlbumTrackRecord)]

\* ---- what the upstream may answer
NotOk(k) == k # "ok"
BadCount(kinds) == Cardinality({i \in 1..Len(kinds) : NotOk(kinds[i])})

\* What the catalog upstream offers: entries of u.kinds, up to u.items per
\* payload and u.total in the whole collection, and the cursors 2..u.pages, a
\* cursor standing for the URL of that page.  A chained upstream hands out with
\* page k the cursor of page k + 1, so that its chain ends; a cyclic one hands
\* out any cursor with any page, the page's own included.
RichUpstream ==
  [kinds |-> TrackKinds, items |-> MaxItems, total |-> MaxPages * MaxItems, pages |-> MaxPages,
   cyclic |-> FALSE]
PlainUpstream ==
  [kinds |-> {"ok"}, items |-> 1, total |-> MaxRounds, pages |-> MaxRounds, cyclic |-> FALSE]
MixedUpstream ==
  [kinds |-> {"ok", "noName"}, items |-> 1, total |-> MaxRounds, pages |-> MaxRounds, cyclic |-> FALSE]
CyclicUpstream ==
  [kinds |-> {"ok", "noName"}, items |-> MaxItems, total |-> MaxItems + 1, pages |-> MaxPages,
   cyclic |-> TRUE]

\* The `next` of page k's body: absent, or a cursor.
NextCursors(u, k) ==
  {None} \cup (IF u.cyclic THEN { Some(c) : c \in 2..u.pages }
               ELSE IF k < u.pages THEN {Some(k + 1)} ELSE {})

\* Entries of one payload, numbered after the `count` already served, with at
\* most MaxBad entries that are not well-formed in the whole collection (`bad`
\* of them served before).
ItemChoices(u, count, bad) ==
  { [i \in 1..Len(kinds) |-> RawTrack(count + i, kinds[i])] :
      kinds \in { ks \in SeqsUpTo(u.kinds, u.items) :
                    bad + BadCount(ks) <= MaxBad /\ count + Len(ks) <= u.total } }

Flatten(pages) ==
  LET F[i \in 0..Len(pages)] == IF i = 0 THEN <<>> ELSE F[i - 1] \o pages[i]
  IN F[Len(pages)]

WellFormed(m) == DOMAIN m = {"id", "name", "artists", "album"} /\ m.name # "" /\ m.artists # <<>>
ReceivedBad(flat) == Cardinality({i \in 1..Len(flat) : ~WellFormed(flat[i])})

\* ------------------------------------------------------------------- state
VARIABLES
  now,                  \* Date.now()
  ticks,                \* how often the clock was advanced
  credentials,          \* the constructor's argument
  useCredentials,       \* SpotifyAPI.useCredentials
  accessToken,          \* SpotifyAPI.accessToken: None, or Some(token record)
  cachedSecrets,        \* SpotifyAPI.cachedSecrets: None, or Some(array)
  secretsCacheTime,     \* SpotifyAPI.secretsCacheTime
  pc,                   \* per caller: where it is; in Waiting, the reply it waits for
  op,                   \* per caller: the operation it runs
  hasRefreshedSecrets,  \* per caller: getAccessTokenUrl's local flag
  selectedSecret,       \* per caller: getAccessTokenUrl's selectedSecret
  gsNow,                \* per caller: getSecrets' local `now`
  t,                    \* per caller: getPlaylist/getAlbum's accumulated entries
  nextCur,              \* per caller: getPlaylist/getAlbum's `next`, Some(cursor) once a page carried one
  headerOk,             \* per caller: the first page carried the record's header fields
  result,               \* per caller: what the operation returned
  served,               \* per caller, history: the entries of each 2xx body the upstream answered
                        \*   with, the first MaxPages bodies of a call
  lastReply,            \* per caller, history: the last catalog reply: "none", "failed", "malformed", "ok"
  mint,                 \* per caller, history of the TOTP path of the mint under way: see MintHistory
  ensured,              \* per caller, history: how ensureValidToken completed for the
                        \*   pending request: "no" (not yet), "held", "minted"
  sentTok,              \* per caller, history: the token the outstanding catalog request carries
  related               \* per caller: the frame of SpotifyExtractor.getRelatedTracks, see NoRelated

vars == <<now, ticks, credentials, useCredentials, accessToken, cachedSecrets, secretsCacheTime,
          pc, op, hasRefreshedSecrets, selectedSecret, gsNow,
          t, nextCur, headerOk, result, served, lastReply, mint, ensured, sentTok, related>>

mintVars == <<cachedSecrets, secretsCacheTime, hasRefreshedSecrets, selectedSecret, gsNow, mint>>
opVars == <<t, nextCur, headerOk, result, served, lastReply>>
clockVars == <<now, ticks>>
modeVars == <<credentials, useCredentials>>

NoOp == "none"

\* A caller with a network request outstanding waits for its reply.
Waiting == {"registry", "stime", "refresh", "exchange", "html", "catalog"}
\* A caller inside requestToken.
Minting == {"registry", "stime", "refresh", "exchange", "html"}

\* The history of a mint: the iterations of getAccessTokenUrl's loop that threw,
\* the calls of removeFailedSecret and of refreshSecrets, the cached pool the
\* mint started with when it was fresh (None otherwise), and the registry's
\* answer when it is what the mint's last step handled (`reg`, None after any
\* other step).  `failed` are the secrets selected by the caller that
\* failed (their iteration threw or their token URL was refused) since the
\* cached pool was last replaced.  `key` and `cTime` are the loop's locals
\* `token` and `cTime` once a secret is selected, `url` the token URL once it
\* is built.  It is kept for a caller only where `on` says so, and all but
\* `failed` is empty outside requestToken.
MintHistory(on) ==
  [on |-> on, fails |-> 0, evicts |-> 0, refreshes |-> 0, pool |-> None, reg |-> None, failed |-> {},
   key |-> None, cTime |-> 0, url |-> None]

\* The history once the mint is over.
MintOver(g) == [MintHistory(g.on) EXCEPT !.failed = g.failed]

\* The history after the registry answered `reply` to fetchSecretsFromRemote.
Answered(g, reply, replaced) ==
  IF g.on THEN [g EXCEPT !.reg = Some(reply), !.failed = IF replaced THEN {} ELSE @] ELSE g

\* The history after a reply that is not the registry's: the iteration's locals
\* are gone.
Handled(g) == [g EXCEPT !.reg = None, !.key = None, !.cTime = 0, !.url = None]

\* The history after `sel` was selected at `time`: the key is derived from it.
Derived(g, sel, time) ==
  IF g.on THEN [g EXCEPT !.key = Some(CalculateToken(sel.secret, sel.version)), !.cTime = time]
  ELSE g

\* The history after the token URL was built with the server's time.
Built(g, sel, sTime) ==
  IF g.on /\ sel # None
    THEN [Handled(g) EXCEPT !.url = Some(TokenUrl(g.key[1], sel[1].version, g.cTime, sTime))]
  ELSE Handled(g)

\* The history after the secret `sel` (None: no secret) failed.
SecretFailed(g, sel) ==
  IF g.on /\ sel # None THEN [Handled(g) EXCEPT !.failed = @ \cup {sel[1]}] ELSE g

\* getRelatedTracks' frame in a caller that is not inside it.  Inside: `stage`
\* is the SpotifyAPI call awaited ("recs", "search") or "done" after the return,
\* `ids` says whether trackIds is non-empty, `called` lists the SpotifyAPI
\* operations called so far and `recs` is what getRecommendations returned.
NoRelated == [stage |-> "off", ids |-> FALSE, called |-> <<>>, recs |-> None]

\* The clock, the cache's stamp and the callers' frames, `time` after the
\* construction.
InitFrameAt(started, time) ==
  /\ now = time
  /\ ticks = 0
  /\ secretsCacheTime = 0
  /\ pc = [p \in Callers |-> IF p \in started THEN "idle" ELSE "off"]
  /\ op = [p \in Callers |-> NoOp]
  /\ hasRefreshedSecrets = [p \in Callers |-> FALSE]
  /\ selectedSecret = [p \in Callers |-> None]
  /\ gsNow = [p \in Callers |-> 0]
  /\ t = [p \in Callers |-> <<>>]
  /\ nextCur = [p \in Callers |-> None]
  /\ headerOk = [p \in Callers |-> TRUE]
  /\ result = [p \in Callers |-> Pending]
  /\ served = [p \in Callers |-> <<>>]
  /\ lastReply = [p \in Callers |-> "none"]
  /\ ensured = [p \in Callers |-> "no"]
  /\ sentTok = [p \in Callers |-> None]
  /\ related = [p \in Callers |-> NoRelated]

\* The clock, the cache's stamp and the callers' frames at construction.
InitFrame(started) == InitFrameAt(started, 0)

\* The constructor's argument: each of clientId and clientSecret is absent, the
\* empty string, or a string.
CredentialValues == {None, Some(""), Some("x")}
AllCredentials == [clientId : CredentialValues, clientSecret : CredentialValues]
NoCredentials == [clientId |-> None, clientSecret |-> None]
TypicalCredentials == {NoCredentials, [clientId |-> Some("x"), clientSecret |-> Some("x")]}

\* Variant of the constructor's test: one of the two is enough.
UseCredentialsOf_Either(c) ==
  (c.clientId # None /\ c.clientId # Some("")) \/ (c.clientSecret # None /\ c.clientSecret # Some(""))

\* The constructor's test `credentials.clientId && credentials.clientSecret`:
\* undefined and the empty string are falsy.
UseCredentialsOf(c) ==
  (c.clientId # None /\ c.clientId # Some("")) /\ (c.clientSecret # None /\ c.clientSecret # Some(""))

\* The constructor called with an argument of cs.
Constructed(cs) ==
  /\ credentials \in cs
  /\ useCredentials = UseCredentialsOf(credentials)

\* Everything but the token, as the constructor leaves it.
InitRest(started) ==
  /\ Constructed(TypicalCredentials)
  /\ cachedSecrets = None
  /\ mint = [p \in Callers |-> MintHistory(FALSE)]
  /\ InitFrame(started)

\* The state after `new SpotifyAPI(credentials)`: `started` are the callers
\* that will invoke an operation.
InitInstance(started) ==
  /\ accessToken = None
  /\ InitRest(started)

\* One caller.
Init == InitInstance({"c1"})

\* ---------------------------------------------------------- the mint (TOTP path)
\* getAccessTokenUrl's loop from the top of an iteration (IterStart), from
\* getFirstSecret once getSecrets returned `secrets` (Selected), and from its
\* catch block (IterCatch), each up to the next network request: the place
\* reached and the instance's and the loop's variables there.
\*   cs, ct: cachedSecrets, secretsCacheTime; hr: hasRefreshedSecrets;
\*   g: the mint's history
RECURSIVE IterStart(_, _, _, _, _), IterCatch(_, _, _, _, _)

\* getAccessTokenUrl throws (its locals are gone): requestToken's catch calls
\* getTokenFallback, which fetches the web player's page.
GivesUp(cs, ct, g) ==
  [pc |-> "html", cs |-> cs, ct |-> ct, hr |-> FALSE, sel |-> None, gs |-> 0, g |-> g]

\* Variant of getFirstSecret's throw: with no secret the loop gives up at once.
Selected_EmptyGivesUp(secrets, cs, ct, hr, time, g) ==
  IF Len(secrets) = 0 THEN GivesUp(cs, ct, g)
  ELSE [pc |-> "stime", cs |-> cs, ct |-> ct, hr |-> hr, sel |-> Some(secrets[1]), gs |-> 0,
        g |-> Derived(g, secrets[1], time)]

\* getFirstSecret once getSecrets returned: its first entry is selected, and
\* with none it throws into the catch block.
Selected(secrets, cs, ct, hr, time, g) ==
  IF Len(secrets) = 0 THEN IterCatch(cs, ct, hr, time, g)
  ELSE [pc |-> "stime", cs |-> cs, ct |-> ct, hr |-> hr, sel |-> Some(secrets[1]), gs |-> 0,
        g |-> Derived(g, secrets[1], time)]

\* Variant of getSecrets' test: a cache of age CACHE_DURATION still counts.
CacheFresh_Le(cs, ct, time) == cs # None /\ (time - ct) <= CACHE_DURATION

\* getSecrets' test: a cache younger than CACHE_DURATION is returned as it is.
CacheFresh(cs, ct, time) == cs # None /\ (time - ct) < CACHE_DURATION

IterStart(cs, ct, hr, time, g) ==
  IF CacheFresh(cs, ct, time) THEN Selected(cs[1], cs, ct, hr, time, g)
  ELSE [pc |-> "registry", cs |-> cs, ct |-> ct, hr |-> hr, sel |-> None, gs |-> time, g |-> g]

\* Variant of the catch block: the refresh is made as soon as one secret has
\* failed, entries being left or not.
IterCatch_RefreshesEarly(cs, ct, hr, time, g) ==
  LET evict == cs # None /\ Len(cs[1]) > 0
      cs1 == IF evict THEN Some(RemoveFailedSecret(cs[1], cs[1][1])) ELSE cs
      g1 == IF g.on THEN [g EXCEPT !.fails = @ + 1, !.evicts = IF evict THEN @ + 1 ELSE @]
            ELSE g
  IN IF ~hr
       THEN [pc |-> "refresh", cs |-> cs1, ct |-> ct, hr |-> hr, sel |-> None, gs |-> 0,
             g |-> IF g.on THEN [g1 EXCEPT !.refreshes = @ + 1] ELSE g]
     ELSE IF evict /\ Len(cs1[1]) > 0 THEN IterStart(cs1, ct, hr, time, g1)
     ELSE GivesUp(cs1, ct, g1)

\* Variant of the catch block: an exhaustion after the refresh starts over with
\* the registry.
IterCatch_StartsOver(cs, ct, hr, time, g) ==
  LET evict == cs # None /\ Len(cs[1]) > 0
      cs1 == IF evict THEN Some(RemoveFailedSecret(cs[1], cs[1][1])) ELSE cs
      g1 == IF g.on THEN [g EXCEPT !.fails = @ + 1, !.evicts = IF evict THEN @ + 1 ELSE @]
            ELSE g
  IN IF evict /\ Len(cs1[1]) > 0 THEN IterStart(cs1, ct, hr, time, g1)
     ELSE IF ~hr
       THEN [pc |-> "refresh", cs |-> cs1, ct |-> ct, hr |-> hr, sel |-> None, gs |-> 0,
             g |-> IF g.on THEN [g1 EXCEPT !.refreshes = @ + 1] ELSE g]
       ELSE [pc |-> "registry", cs |-> cs1, ct |-> ct, hr |-> hr, sel |-> None, gs |-> time, g |-> g1]

\* The catch block: evict the head of the cache and go on while it is not empty,
\* else refresh once, else give up (requestToken's catch then fetches the page).
IterCatch(cs, ct, hr, time, g) ==
  LET evict == cs # None /\ Len(cs[1]) > 0
      cs1 == IF evict THEN Some(RemoveFailedSecret(cs[1], cs[1][1])) ELSE cs
      g1 == IF g.on THEN [g EXCEPT !.fails = @ + 1, !.evicts = IF evict THEN @ + 1 ELSE @]
            ELSE g
  IN IF evict /\ Len(cs1[1]) > 0 THEN IterStart(cs1, ct, hr, time, g1)
     ELSE IF ~hr
       THEN [pc |-> "refresh", cs |-> cs1, ct |-> ct, hr |-> hr, sel |-> None, gs |-> 0,
             g |-> IF g.on THEN [g1 EXCEPT !.refreshes = @ + 1] ELSE g]
       ELSE GivesUp(cs1, ct, g1)

\* Caller p goes on as `r` says, its request issued.
MintGoes(p, r) ==
  /\ pc' = [pc EXCEPT ![p] = r.pc]
  /\ cachedSecrets' = r.cs
  /\ secretsCacheTime' = r.ct
  /\ hasRefreshedSecrets' = [hasRefreshedSecrets EXCEPT ![p] = r.hr]
  /\ selectedSecret' = [selectedSecret EXCEPT ![p] = r.sel]
  /\ gsNow' = [gsNow EXCEPT ![p] = r.gs]
  /\ mint' = [mint EXCEPT ![p] = r.g]

\* Caller p leaves getAccessTokenUrl with the URL built from the server's time
\* (its locals are gone) and issues the request awaited at l.
LeavesLoop(p, l, sTime) ==
  /\ pc' = [pc EXCEPT ![p] = l]
  /\ hasRefreshedSecrets' = [hasRefreshedSecrets EXCEPT ![p] = FALSE]
  /\ gsNow' = [gsNow EXCEPT ![p] = 0]
  /\ mint' = [mint EXCEPT ![p] = Built(@, selectedSecret[p], sTime)]
  /\ UNCHANGED <<cachedSecrets, secretsCacheTime>>

\* -------------------------------------------------- how an operation ends
\* The operation returns r.
Returns(p, r) ==
  /\ result' = [result EXCEPT ![p] = r]
  /\ pc' = [pc EXCEPT ![p] = "done"]

\* Variant of the page loops' catch blocks: a failed page makes the operation
\* return null.
FetchThrows_Null(p) ==
  /\ Returns(p, NullResult)
  /\ UNCHANGED <<t, nextCur, headerOk, served>>

\* Variant of the operations' catch blocks: the error is rethrown.
FetchThrows_Rethrows(p) ==
  /\ Returns(p, [kind |-> "error"])
  /\ UNCHANGED <<t, nextCur, headerOk, served>>

\* fetchData threw in caller p (the mint failed, or the catalog request failed):
\* the first request's throw reaches the operation's catch, which returns null;
\* a page request's throw reaches the loop's catch, which breaks.
FetchThrows(p) ==
  /\ Returns(p, IF nextCur[p] = None THEN NullResult
                ELSE Finalize(op[p], t[p], headerOk[p]))
  /\ UNCHANGED <<t, nextCur, headerOk, served>>

\* Variant of getRecommendations without its pre-check.
Unsupported_Never(o) == FALSE

\* getRecommendations' pre-check.
Unsupported(o) == o = "getRecommendations" /\ useCredentials

\* ensureValidToken completed in caller p: fetchData goes on to its request.
TokenEnsured(p, how) ==
  /\ pc' = [pc EXCEPT ![p] = "send"]
  /\ ensured' = [ensured EXCEPT ![p] = how]

\* ----------------------------------------------------------------- actions
\* A caller invokes operation o.  getRecommendations throws at once when
\* credentials are in use, inside its own try: the catch returns null.
Invoke(p, o) ==
  /\ op' = [op EXCEPT ![p] = o]
  /\ IF Unsupported(o)
       THEN Returns(p, NullResult)
       ELSE /\ pc' = [pc EXCEPT ![p] = "ensure"]
            /\ result' = [result EXCEPT ![p] = Pending]
  /\ served' = [served EXCEPT ![p] = <<>>]
  /\ lastReply' = [lastReply EXCEPT ![p] = "none"]
  /\ UNCHANGED <<clockVars, modeVars, accessToken, mintVars,
                 t, nextCur, headerOk, ensured, sentTok>>

\* An operation of SpotifyAPI called directly.
Call(p, o) ==
  /\ pc[p] = "idle"
  /\ Invoke(p, o)
  /\ UNCHANGED related

\* Variant of getRelatedTracks' first test: recommendations are asked for in
\* either mode.
RecommendationsAvailable_Always == TRUE

\* getRelatedTracks' first test, `!this.internal.useCredentials`.
RecommendationsAvailable == ~useCredentials

\* `!relatedTracks?.length` on what a SpotifyAPI operation returned.
NoneRelated(r) == r.kind = "null" \/ (r.kind = "list" /\ Len(r.items) = 0)

\* getRelatedTracks calls SpotifyAPI operation o and awaits it at stage st.
RelatedCalls(p, o, st) ==
  /\ Invoke(p, o)
  /\ related' = [related EXCEPT ![p].stage = st, ![p].called = Append(@, o)]

\* SpotifyExtractor.getRelatedTracks up to its first SpotifyAPI call: the
\* recommendations when they are available and the history gave track ids
\* (`ids`), else the artist search.
GetRelatedTracks(p, ids) ==
  /\ pc[p] = "idle" /\ related[p].stage = "off"
  /\ IF RecommendationsAvailable /\ ids
       THEN RelatedCalls(p, "getRecommendations", "recs")
       ELSE RelatedCalls(p, "search", "search")

\* getRelatedTracks after the SpotifyAPI call it awaited has returned: the
\* artist search follows recommendations that are null or empty, else the
\* response is built.
RelatedResumes(p) ==
  /\ pc[p] = "done" /\ related[p].stage \in {"recs", "search"}
  /\ IF related[p].stage = "recs" /\ (useCredentials \/ NoneRelated(result[p]))
       THEN /\ Invoke(p, "search")
            /\ related' = [related EXCEPT ![p].stage = "search",
                                           ![p].called = Append(@, "search"),
                                           ![p].recs = Some(result[p])]
       ELSE /\ related' = [related EXCEPT ![p].stage = "done",
                                           ![p].recs = IF @ = None /\ related[p].stage = "recs"
                                                         THEN Some(result[p]) ELSE @]
            /\ UNCHANGED <<clockVars, modeVars, accessToken, mintVars, pc, op, opVars,
                           ensured, sentTok>>

\* isTokenExpired
IsTokenExpired == IsTokenExpiredAt(accessToken, now)

\* fetchData's ensureValidToken: nothing when the token is not expired, else
\* requestToken up to its first network request.
EnsureValidToken(p) ==
  /\ pc[p] = "ensure"
  /\ IF ~IsTokenExpired
       THEN /\ TokenEnsured(p, "held")
            /\ UNCHANGED mintVars
       ELSE /\ IF useCredentials
                 THEN /\ pc' = [pc EXCEPT ![p] = "exchange"]
                      /\ UNCHANGED mintVars
                 ELSE MintGoes(p, IterStart(cachedSecrets, secretsCacheTime, FALSE, now,
                        [mint[p] EXCEPT !.pool =
                           IF mint[p].on /\ CacheFresh(cachedSecrets, secretsCacheTime, now)
                             THEN cachedSecrets ELSE None]))
            /\ UNCHANGED ensured
  /\ UNCHANGED <<clockVars, modeVars, related, accessToken, op, opVars, sentTok>>

\* Variant of getSecrets' catch: a failed fetch throws even when an old cache
\* exists.
RegistryReply_NoStale(p, reply) ==
  /\ pc[p] = "registry"
  /\ LET got == FetchSecretsFromRemote(reply) IN
       MintGoes(p,
         IF got # Fail
           THEN Selected(got.secrets, Some(got.secrets), gsNow[p], hasRefreshedSecrets[p], now,
                         Answered(mint[p], reply, TRUE))
         ELSE IterCatch(cachedSecrets, secretsCacheTime, hasRefreshedSecrets[p], now,
                        Answered(mint[p], reply, FALSE)))
  /\ UNCHANGED <<clockVars, modeVars, related, accessToken, op, opVars, ensured, sentTok>>

\* getSecrets after its registry fetch: the cache is replaced and stamped with
\* the time read before the fetch; on failure the old cache is used if any.
RegistryReply(p, reply) ==
  /\ pc[p] = "registry"
  /\ LET got == FetchSecretsFromRemote(reply) IN
       MintGoes(p,
         IF got # Fail
           THEN Selected(got.secrets, Some(got.secrets), gsNow[p], hasRefreshedSecrets[p], now,
                         Answered(mint[p], reply, TRUE))
         ELSE IF cachedSecrets # None
           THEN Selected(cachedSecrets[1], cachedSecrets, secretsCacheTime,
                         hasRefreshedSecrets[p], now, Answered(mint[p], reply, FALSE))
         ELSE IterCatch(cachedSecrets, secretsCacheTime, hasRefreshedSecrets[p], now,
                        Answered(mint[p], reply, FALSE)))
  /\ UNCHANGED <<clockVars, modeVars, related, accessToken, op, opVars, ensured, sentTok>>

\* What the server-time endpoint may answer: nothing usable (None), or a
\* serverTime in seconds, the client's or one period ahead of it.
ServerTimeReplies(time) == {None, Some(time \div 1000), Some(time \div 1000 + 30)}

\* The server-time reply: the URL is built from the selected secret and
\* requestToken fetches it, or the iteration threw.
ServerTimeReply(p, reply) ==
  /\ pc[p] = "stime"
  /\ IF reply # None
       THEN LeavesLoop(p, "exchange", reply[1]) /\ UNCHANGED selectedSecret
       ELSE MintGoes(p, IterCatch(cachedSecrets, secretsCacheTime, hasRefreshedSecrets[p], now,
                                  SecretFailed(mint[p], selectedSecret[p])))
  /\ UNCHANGED <<clockVars, modeVars, related, accessToken, op, opVars, ensured, sentTok>>

\* Variant of the catch block: hasRefreshedSecrets is not set after a refresh.
RefreshReply_FlagNotSet(p, reply) ==
  /\ pc[p] = "refresh"
  /\ LET got == FetchSecretsFromRemote(reply) IN
       IF got # Fail
         THEN MintGoes(p, IterStart(Some(got.secrets), now, FALSE, now, Answered(mint[p], reply, TRUE)))
         ELSE MintGoes(p, GivesUp(cachedSecrets, secretsCacheTime, Answered(mint[p], reply, FALSE)))
  /\ UNCHANGED <<clockVars, modeVars, related, accessToken, op, opVars, ensured, sentTok>>

\* Variant of refreshSecrets: the cache's stamp is left as it was.
RefreshReply_KeepsStamp(p, reply) ==
  /\ pc[p] = "refresh"
  /\ LET got == FetchSecretsFromRemote(reply) IN
       IF got # Fail
         THEN MintGoes(p, IterStart(Some(got.secrets), secretsCacheTime, TRUE, now,
                                    Answered(mint[p], reply, TRUE)))
         ELSE MintGoes(p, GivesUp(cachedSecrets, secretsCacheTime, Answered(mint[p], reply, FALSE)))
  /\ UNCHANGED <<clockVars, modeVars, related, accessToken, op, opVars, ensured, sentTok>>

\* refreshSecrets' reply inside the catch block.
RefreshReply(p, reply) ==
  /\ pc[p] = "refresh"
  /\ LET got == FetchSecretsFromRemote(reply) IN
       IF got # Fail
         THEN MintGoes(p, IterStart(Some(got.secrets), now, TRUE, now, Answered(mint[p], reply, TRUE)))
         ELSE MintGoes(p, GivesUp(cachedSecrets, secretsCacheTime, Answered(mint[p], reply, FALSE)))
  /\ UNCHANGED <<clockVars, modeVars, related, accessToken, op, opVars, ensured, sentTok>>

\* What the token endpoint may answer: no JSON at all, JSON null, or an object
\* (of a 2xx reply or an error reply) with or without the two fields.  `life` is
\* the absolute expiry (web player) or expires_in in seconds (accounts).
ExchangeErrors == { [error |-> "nojson"], [error |-> "jsonnull"] }
ExchangeBodies(time) ==
  LET src == IF useCredentials THEN "credentials" ELSE "totp"
      lives == IF useCredentials THEN {None, Some(0), Some(3600)}
               ELSE {None, Some(time - 1), Some(time), Some(time + FALLBACK_LIFETIME)}
  IN { [tok |-> TokenOf(src), life |-> e] : e \in lives } \cup { [tok |-> Undef, life |-> None] }
ExchangeReplies(time) == ExchangeErrors \cup ExchangeBodies(time)

\* The accessToken requestToken stores from a token object.
ExchangedToken(body, time) ==
  [token |-> body.tok,
   expiresAfter |-> IF useCredentials
                      THEN IF body.life = None THEN None
                           ELSE Some(time + body.life[1] * 1000)
                      ELSE body.life,
   src |-> IF useCredentials THEN "credentials" ELSE "totp"]

\* requestToken after its fetch of the token URL: the token is stored, or the
\* catch fetches the web player's page.
ExchangeReply(p, reply) ==
  /\ pc[p] = "exchange"
  /\ selectedSecret' = [selectedSecret EXCEPT ![p] = None]
  /\ IF reply \in ExchangeErrors
       THEN /\ pc' = [pc EXCEPT ![p] = "html"]
            /\ mint' = [mint EXCEPT ![p] = SecretFailed(@, selectedSecret[p])]
            /\ UNCHANGED <<accessToken, ensured>>
       ELSE /\ accessToken' = Some(ExchangedToken(reply, now))
            /\ TokenEnsured(p, "minted")
            /\ mint' = [mint EXCEPT ![p] = MintOver(@)]
  /\ UNCHANGED <<clockVars, modeVars, related, cachedSecrets, secretsCacheTime,
                 hasRefreshedSecrets, gsNow, op, opVars, sentTok>>

\* What the web player's page may answer: nothing, or a page in which a token
\* and an expiry timestamp are found or not.
HtmlErrors == { [error |-> "neterr"] }
HtmlPages(time) ==
  { [tok |-> v, ts |-> e] :
      v \in {None, Some(TokenOf("html"))},
      e \in {None, Some(time), Some(time + FALLBACK_MARGIN)} }
HtmlReplies(time) == HtmlErrors \cup HtmlPages(time)

\* The accessToken getTokenFallback stores from a page with a token.
ScrapedToken(page, time) ==
  LET expiresAfter == IF page.ts = None \/ page.ts = Some(0)
                        THEN time + FALLBACK_LIFETIME ELSE page.ts[1]
  IN [token |-> page.tok[1], expiresAfter |-> Some(expiresAfter - FALLBACK_MARGIN), src |-> "html"]

\* Variant of getTokenFallback: a page without token drops the held token.
HtmlReply_DropsToken(p, reply) ==
  /\ pc[p] = "html"
  /\ IF reply \in HtmlErrors \/ reply.tok = None
       THEN /\ FetchThrows(p)
            /\ accessToken' = None
            /\ UNCHANGED <<ensured, lastReply>>
       ELSE /\ accessToken' = Some(ScrapedToken(reply, now))
            /\ TokenEnsured(p, "minted")
            /\ UNCHANGED opVars
  /\ mint' = [mint EXCEPT ![p] = MintOver(@)]
  /\ UNCHANGED <<clockVars, modeVars, related, cachedSecrets, secretsCacheTime,
                 hasRefreshedSecrets, selectedSecret, gsNow, op, sentTok>>

\* Variant of getTokenFallback: a page without token empties the secret cache.
HtmlReply_DropsCache(p, reply) ==
  /\ pc[p] = "html"
  /\ IF reply \in HtmlErrors \/ reply.tok = None
       THEN /\ FetchThrows(p)
            /\ cachedSecrets' = None
            /\ UNCHANGED <<accessToken, ensured, lastReply>>
       ELSE /\ accessToken' = Some(ScrapedToken(reply, now))
            /\ TokenEnsured(p, "minted")
            /\ UNCHANGED <<opVars, cachedSecrets>>
  /\ mint' = [mint EXCEPT ![p] = MintOver(@)]
  /\ UNCHANGED <<clockVars, modeVars, related, secretsCacheTime,
                 hasRefreshedSecrets, selectedSecret, gsNow, op, sentTok>>

\* getTokenFallback after its fetch: the token is stored, or requestToken throws.
HtmlReply(p, reply) ==
  /\ pc[p] = "html"
  /\ IF reply \in HtmlErrors \/ reply.tok = None
       THEN /\ FetchThrows(p)
            /\ UNCHANGED <<accessToken, ensured, lastReply>>
       ELSE /\ accessToken' = Some(ScrapedToken(reply, now))
            /\ TokenEnsured(p, "minted")
            /\ UNCHANGED opVars
  /\ mint' = [mint EXCEPT ![p] = MintOver(@)]
  /\ UNCHANGED <<clockVars, modeVars, related, cachedSecrets, secretsCacheTime,
                 hasRefreshedSecrets, selectedSecret, gsNow, op, sentTok>>

\* The token of the Authorization header.
HeldToken == IF accessToken = None THEN Undef ELSE accessToken[1].token

\* fetchData's fetch of the catalog URL, with the token held now.
Send(p) ==
  /\ pc[p] = "send"
  /\ pc' = [pc EXCEPT ![p] = "catalog"]
  /\ sentTok' = [sentTok EXCEPT ![p] = Some(HeldToken)]
  /\ ensured' = [ensured EXCEPT ![p] = "no"]
  /\ UNCHANGED <<clockVars, modeVars, related, accessToken, mintVars, op, opVars>>

\* What a catalog endpoint may answer to caller p: a failure (transport error
\* or non-2xx status), a 2xx reply whose body lacks what is read first, or a
\* 2xx body, as upstream u offers them.
CatalogErrors == { [error |-> "failed"] }
Malformed == [malformed |-> TRUE]
CatalogBodies(p, u) ==
  LET count == Len(t[p])
      bad == ReceivedBad(t[p])
  IN CASE op[p] \in {"search", "getRecommendations"} ->
            { [items |-> its] : its \in ItemChoices(u, 0, 0) }
       [] op[p] = "getTrack" ->
            { [track |-> RawTrack(1, k)] : k \in u.kinds }
       [] op[p] \in PagedOps /\ nextCur[p] = None ->
            { [items |-> its, next |-> n, header |-> h] :
                its \in ItemChoices(u, 0, 0), n \in NextCursors(u, 1),
                h \in BOOLEAN }
       [] op[p] \in PagedOps /\ nextCur[p] # None ->
            { [items |-> its, next |-> n] :
                its \in ItemChoices(u, count, bad),
                n \in NextCursors(u, nextCur[p][1]) }
       [] OTHER -> {}
CatalogReplies(p, u) ==
  IF pc[p] = "catalog" THEN CatalogErrors \cup {Malformed} \cup CatalogBodies(p, u) ELSE {}

\* Variant of the accumulation: a page's items are put in front.
Push_Unshift(acc, items) == items \o acc

\* t.push(...items)
Push(acc, items) == acc \o items

\* Variant of the first page: the next page is fetched with fetch and the
\* header directly, not through fetchData.
FirstPage_RawFetch(p, body) ==
  IF Len(body.items) = 0
    THEN /\ Returns(p, NullResult)
         /\ UNCHANGED <<t, nextCur, headerOk>>
  ELSE IF body.next # None
    THEN /\ t' = [t EXCEPT ![p] = body.items]
         /\ headerOk' = [headerOk EXCEPT ![p] = body.header]
         /\ nextCur' = [nextCur EXCEPT ![p] = body.next]
         /\ pc' = [pc EXCEPT ![p] = "send"]
         /\ UNCHANGED result
    ELSE /\ t' = [t EXCEPT ![p] = body.items]
         /\ headerOk' = [headerOk EXCEPT ![p] = body.header]
         /\ Returns(p, Finalize(op[p], body.items, body.header))
         /\ UNCHANGED nextCur

\* The first page of getPlaylist / getAlbum.
FirstPage(p, body) ==
  IF Len(body.items) = 0
    THEN /\ Returns(p, NullResult)
         /\ UNCHANGED <<t, nextCur, headerOk>>
  ELSE IF body.next # None
    THEN /\ t' = [t EXCEPT ![p] = body.items]
         /\ headerOk' = [headerOk EXCEPT ![p] = body.header]
         /\ nextCur' = [nextCur EXCEPT ![p] = body.next]
         /\ pc' = [pc EXCEPT ![p] = "ensure"]
         /\ UNCHANGED result
    ELSE /\ t' = [t EXCEPT ![p] = body.items]
         /\ headerOk' = [headerOk EXCEPT ![p] = body.header]
         /\ Returns(p, Finalize(op[p], body.items, body.header))
         /\ UNCHANGED nextCur

\* Variant of the page loop: the next page is requested without the items of
\* the page just received being appended.
NextPage_RequestsFirst(p, body) ==
  /\ IF body.next # None
       THEN /\ nextCur' = [nextCur EXCEPT ![p] = body.next]
            /\ pc' = [pc EXCEPT ![p] = "ensure"]
            /\ UNCHANGED <<result, t>>
       ELSE /\ t' = [t EXCEPT ![p] = Push(t[p], body.items)]
            /\ Returns(p, Finalize(op[p], Push(t[p], body.items), headerOk[p]))
            /\ UNCHANGED nextCur
  /\ UNCHANGED headerOk

\* A later page inside the loop.
NextPage(p, body) ==
  LET acc == Push(t[p], body.items) IN
  /\ t' = [t EXCEPT ![p] = acc]
  /\ IF body.next # None
       THEN /\ nextCur' = [nextCur EXCEPT ![p] = body.next]
            /\ pc' = [pc EXCEPT ![p] = "ensure"]
            /\ UNCHANGED result
       ELSE /\ Returns(p, Finalize(op[p], acc, headerOk[p]))
            /\ UNCHANGED nextCur
  /\ UNCHANGED headerOk

\* The reply to fetchData's catalog request, and the operation's code after it
\* up to its return or its next fetchData.
CatalogReply(p, reply) ==
  /\ pc[p] = "catalog"
  /\ sentTok' = [sentTok EXCEPT ![p] = None]
  /\ lastReply' = [lastReply EXCEPT ![p] =
       IF reply \in CatalogErrors THEN "failed" ELSE IF reply = Malformed THEN "malformed" ELSE "ok"]
  /\ IF reply \in CatalogErrors \/ reply = Malformed
       THEN FetchThrows(p)
       ELSE /\ served' = [served EXCEPT ![p] =
                  IF Len(@) < MaxPages
                    THEN Append(@, IF op[p] = "getTrack" THEN <<reply.track>> ELSE reply.items)
                    ELSE @]
            /\ CASE op[p] \in {"search", "getRecommendations"} ->
                      Returns(p, HitsResult(reply)) /\ UNCHANGED <<t, nextCur, headerOk>>
                 [] op[p] = "getTrack" ->
                      Returns(p, TrackResult(reply)) /\ UNCHANGED <<t, nextCur, headerOk>>
                 [] op[p] \in PagedOps /\ nextCur[p] = None -> FirstPage(p, reply)
                 [] op[p] \in PagedOps /\ nextCur[p] # None -> NextPage(p, reply)
  /\ UNCHANGED <<clockVars, modeVars, related, accessToken, mintVars, op, ensured>>

\* Time passes while a caller waits for the network.
Tick(d) ==
  /\ ticks < MaxTicks
  /\ \E p \in Callers : pc[p] \in Waiting
  /\ now' = now + d
  /\ ticks' = ticks + 1
  /\ UNCHANGED <<modeVars, related, accessToken, mintVars, pc, op, opVars, ensured, sentTok>>

\* ---------------------------------------------------------- specifications
\* The token cache and the mint in full, with well-formed catalog entries.
Next ==
  \/ \E p \in Callers, o \in Ops : Call(p, o)
  \/ \E p \in Callers : EnsureValidToken(p)
  \/ \E p \in Callers, reply \in RegistryReplies(ServedSecrets \cup {BadSecret}) : RegistryReply(p, reply)
  \/ \E p \in Callers, reply \in ServerTimeReplies(now) : ServerTimeReply(p, reply)
  \/ \E p \in Callers, reply \in RegistryReplies(ServedSecrets \cup {BadSecret}) : RefreshReply(p, reply)
  \/ \E p \in Callers, reply \in ExchangeReplies(now) : ExchangeReply(p, reply)
  \/ \E p \in Callers, reply \in HtmlReplies(now) : HtmlReply(p, reply)
  \/ \E p \in Callers : Send(p)
  \/ \E p \in Callers : \E reply \in CatalogReplies(p, PlainUpstream) : CatalogReply(p, reply)
  \/ \E d \in TickSteps : Tick(d)

Spec == Init /\ [][Next]_vars

\* The catalog operations in full on an instance without credentials that holds
\* a token minted at construction time and valid for an hour; the clock stands
\* still.
InitCatalog ==
  /\ InitRest({"c1"})
  /\ ~useCredentials
  /\ accessToken \in
       { Some(ExchangedToken(body, 0)) :
           body \in {b \in ExchangeBodies(0) : b.tok # Undef /\ b.life \notin {None, Some(0), Some(-1)}} }

NextCatalog ==
  \/ \E p \in Callers, o \in Ops : Call(p, o)
  \/ \E p \in Callers : EnsureValidToken(p)
  \/ \E p \in Callers : Send(p)
  \/ \E p \in Callers : \E reply \in CatalogReplies(p, RichUpstream) : CatalogReply(p, reply)

SpecCatalog == InitCatalog /\ [][NextCatalog]_vars

\* Two callers on one instance, each running one single-request operation:
\* the clock stands still.
InitConc == InitInstance(Callers)

NextConc ==
  \/ \E p \in Callers, o \in {"getTrack", "getRecommendations"} : Call(p, o)
  \/ \E p \in Callers : EnsureValidToken(p)
  \/ \E p \in Callers, reply \in RegistryReplies(ServedSecrets \cup {BadSecret}) : RegistryReply(p, reply)
  \/ \E p \in Callers, reply \in ServerTimeReplies(now) : ServerTimeReply(p, reply)
  \/ \E p \in Callers, reply \in RegistryReplies(ServedSecrets \cup {BadSecret}) : RefreshReply(p, reply)
  \/ \E p \in Callers, reply \in ExchangeReplies(now) : ExchangeReply(p, reply)
  \/ \E p \in Callers, reply \in HtmlReplies(now) : HtmlReply(p, reply)
  \/ \E p \in Callers : Send(p)
  \/ \E p \in Callers : \E reply \in CatalogReplies(p, PlainUpstream) : CatalogReply(p, reply)

SpecConc == InitConc /\ [][NextConc]_vars

\* The mint of an instance without credentials, its history kept: one caller on
\* an instance that holds no token and either no secret cache or a fresh one
\* (left by an earlier mint that failed after the registry answered); the clock
\* stands still.
InitMint ==
  /\ InitFrame({"c1"})
  /\ Constructed({NoCredentials})
  /\ accessToken = None
  /\ cachedSecrets \in {None} \cup { Some(pool) : pool \in SeqsUpTo(SecretUniverse, MaxCached) \ {<<>>} }
  /\ mint = [p \in Callers |-> MintHistory(TRUE)]

NextMint ==
  \/ \E p \in Callers, o \in Ops : Call(p, o)
  \/ \E p \in Callers : EnsureValidToken(p)
  \/ \E p \in Callers, reply \in RegistryReplies(ServedSecrets \cup {BadSecret}) : RegistryReply(p, reply)
  \/ \E p \in Callers, reply \in ServerTimeReplies(now) : ServerTimeReply(p, reply)
  \/ \E p \in Callers, reply \in RegistryReplies(ServedSecrets \cup {BadSecret}) : RefreshReply(p, reply)
  \/ \E p \in Callers, reply \in ExchangeReplies(now) : ExchangeReply(p, reply)
  \/ \E p \in Callers, reply \in HtmlReplies(now) : HtmlReply(p, reply)
  \/ \E p \in Callers : Send(p)
  \/ \E p \in Callers : \E reply \in CatalogReplies(p, PlainUpstream) : CatalogReply(p, reply)

SpecMint == InitMint /\ [][NextMint]_vars

\* Every way of constructing the instance, then one caller; the clock stands
\* still.
InitCred ==
  /\ InitFrame({"c1"})
  /\ Constructed(AllCredentials)
  /\ accessToken = None
  /\ cachedSecrets = None
  /\ mint = [p \in Callers |-> MintHistory(FALSE)]

SpecCred == InitCred /\ [][NextMint]_vars

\* The instance without credentials one millisecond after its construction,
\* holding no token and either no secret cache or the one an earlier mint
\* stamped at construction time; the mint's history is kept and the clock
\* stands still.
InitAgain ==
  /\ InitFrameAt({"c1"}, 1)
  /\ Constructed({NoCredentials})
  /\ accessToken = None
  /\ cachedSecrets \in {None} \cup { Some(pool) : pool \in SeqsUpTo(SecretUniverse, MaxPool) \ {<<>>} }
  /\ mint = [p \in Callers |-> MintHistory(TRUE)]

SpecAgain == InitAgain /\ [][NextMint]_vars

\* The secret store over time: one getTrack on an instance without credentials
\* that holds no token and no secret cache, or a cache stamped at construction
\* time (possibly emptied by evictions); the clock advances while a request is
\* outstanding.  `on` says whether the mint's history is kept.
InitStoreWith(on) ==
  /\ InitFrame({"c1"})
  /\ Constructed({NoCredentials})
  /\ accessToken = None
  /\ cachedSecrets \in {None} \cup { Some(pool) : pool \in SeqsUpTo(ServedSecrets, MaxPool) }
  /\ mint = [p \in Callers |-> MintHistory(on)]

InitStore == InitStoreWith(TRUE)

\* The steps of the code and the replies of the network.
Progress ==
  \/ \E p \in Callers : Call(p, "getTrack")
  \/ \E p \in Callers : EnsureValidToken(p)
  \/ \E p \in Callers, reply \in RegistryReplies(ServedSecrets \cup {BadSecret}) : RegistryReply(p, reply)
  \/ \E p \in Callers, reply \in ServerTimeReplies(now) : ServerTimeReply(p, reply)
  \/ \E p \in Callers, reply \in RegistryReplies(ServedSecrets \cup {BadSecret}) : RefreshReply(p, reply)
  \/ \E p \in Callers, reply \in ExchangeReplies(now) : ExchangeReply(p, reply)
  \/ \E p \in Callers, reply \in HtmlReplies(now) : HtmlReply(p, reply)
  \/ \E p \in Callers : Send(p)
  \/ \E p \in Callers : \E reply \in CatalogReplies(p, PlainUpstream) : CatalogReply(p, reply)

NextStore ==
  \/ Progress
  \/ \E d \in TickSteps : Tick(d)

SpecStore == InitStore /\ [][NextStore]_vars

\* The same without the mint's history, every network request being answered
\* (with a reply or a failure) and the code running on after each answer.
InitLoop == InitStoreWith(FALSE)

SpecLoop == InitLoop /\ [][NextStore]_vars /\ WF_vars(Progress)

\* The consumer layer: getRelatedTracks on an instance of either mode that
\* holds no token; the clock stands still.
InitRelated == Init

NextRelated ==
  \/ \E p \in Callers, ids \in BOOLEAN : GetRelatedTracks(p, ids)
  \/ \E p \in Callers : RelatedResumes(p)
  \/ \E p \in Callers : EnsureValidToken(p)
  \/ \E p \in Callers, reply \in RegistryReplies(ServedSecrets \cup {BadSecret}) : RegistryReply(p, reply)
  \/ \E p \in Callers, reply \in ServerTimeReplies(now) : ServerTimeReply(p, reply)
  \/ \E p \in Callers, reply \in RegistryReplies(ServedSecrets \cup {BadSecret}) : RefreshReply(p, reply)
  \/ \E p \in Callers, reply \in ExchangeReplies(now) : ExchangeReply(p, reply)
  \/ \E p \in Callers, reply \in HtmlReplies(now) : HtmlReply(p, reply)
  \/ \E p \in Callers : Send(p)
  \/ \E p \in Callers : \E reply \in CatalogReplies(p, PlainUpstream) : CatalogReply(p, reply)

SpecRelated == InitRelated /\ [][NextRelated]_vars

\* The paged operations against an upstream whose cursors may repeat, on an
\* instance that holds a valid token: every request is answered (with a page or
\* a failure) and the code runs on after each answer; the clock stands still.
InitPages == InitCatalog

NextPages ==
  \/ \E p \in Callers, o \in PagedOps : Call(p, o)
  \/ \E p \in Callers : EnsureValidToken(p)
  \/ \E p \in Callers : Send(p)
  \/ \E p \in Callers : \E reply \in CatalogReplies(p, CyclicUpstream) : CatalogReply(p, reply)

SpecPages == InitPages /\ [][NextPages]_vars /\ WF_vars(NextPages)

\* The paged operations on an instance without credentials whose held token
\* expires at the time of construction: it is valid for the first request and
\* expired as soon as the clock has advanced.  The instance has no secret cache
\* or one of a single secret, and entries may lack their name.
InitExpiry ==
  /\ InitFrame({"c1"})
  /\ Constructed({NoCredentials})
  /\ accessToken = Some(ExchangedToken([tok |-> TokenOf("totp"), life |-> Some(0)], 0))
  /\ cachedSecrets \in {None} \cup { Some(<<x>>) : x \in ServedSecrets }
  /\ mint = [p \in Callers |-> MintHistory(FALSE)]

NextExpiry ==
  \/ \E p \in Callers, o \in PagedOps : Call(p, o)
  \/ \E p \in Callers : EnsureValidToken(p)
  \/ \E p \in Callers, reply \in RegistryReplies(ServedSecrets \cup {BadSecret}) : RegistryReply(p, reply)
  \/ \E p \in Callers, reply \in ServerTimeReplies(now) : ServerTimeReply(p, reply)
  \/ \E p \in Callers, reply \in RegistryReplies(ServedSecrets \cup {BadSecret}) : RefreshReply(p, reply)
  \/ \E p \in Callers, reply \in ExchangeReplies(now) : ExchangeReply(p, reply)
  \/ \E p \in Callers, reply \in HtmlReplies(now) : HtmlReply(p, reply)
  \/ \E p \in Callers : Send(p)
  \/ \E p \in Callers : \E reply \in CatalogReplies(p, MixedUpstream) : CatalogReply(p, reply)
  \/ \E d \in TickSteps : Tick(d)

SpecExpiry == InitExpiry /\ [][NextExpiry]_vars

\* ------------------------------------------------------------------ claims
\* C1: when several operations find the token expired at the same time, at most
\* one mint is under way: no two callers are inside requestToken together.
C1_SingleFlight == Cardinality({p \in Callers : pc[p] \in Minting}) <= 1

\* C2: isTokenExpired() is true when no token is held or now > expiresAfter, and
\* false for every now <= expiresAfter: ensureValidToken mints in the first two
\* cases and goes on with the held token in the third, now = expiresAfter
\* included.
C2_StrictExpiry ==
  [][\A p \in Callers :
       (pc[p] = "ensure" /\ pc'[p] # "ensure") =>
         /\ accessToken = None => pc'[p] \in Minting
         /\ (accessToken # None /\ accessToken[1].expiresAfter # None) =>
              IF now > accessToken[1].expiresAfter[1]
                THEN pc'[p] \in Minting
                ELSE pc'[p] = "send" /\ ensured'[p] = "held"]_vars

\* A caller went on with the held token at the very instant of its expiry.
C2_Witness ==
  \E p \in Callers :
    /\ pc[p] = "send" /\ ensured[p] = "held"
    /\ accessToken # None /\ accessToken[1].expiresAfter = Some(now)

\* C3: when the held token is not expired, ensureValidToken issues no request
\* and leaves the token and the secret cache as they are; the held token is
\* written only by a mint that obtained one.
C3_NoMintWhenValid ==
  [][/\ \A p \in Callers :
          ( /\ pc[p] = "ensure" /\ pc'[p] # "ensure"
            /\ accessToken # None
            /\ (accessToken[1].expiresAfter = None \/ now <= accessToken[1].expiresAfter[1]) )
          => /\ pc'[p] \notin Waiting
             /\ accessToken' = accessToken
             /\ cachedSecrets' = cachedSecrets
             /\ secretsCacheTime' = secretsCacheTime
     /\ accessToken' # accessToken =>
          \E p \in Callers : pc[p] \in {"exchange", "html"} /\ ensured'[p] = "minted"]_vars

\* A caller went on with a held token that expires later, the secret cache
\* being filled.
C3_Witness ==
  \E p \in Callers :
    /\ pc[p] = "send" /\ ensured[p] = "held"
    /\ cachedSecrets # None
    /\ accessToken # None /\ accessToken[1].expiresAfter # None
    /\ now < accessToken[1].expiresAfter[1]

\* C4: every catalog request, a page request included, is sent after
\* ensureValidToken has completed for it and carries the token held then.
C4_RequestAfterEnsure ==
  [][\A p \in Callers :
       (pc[p] # "catalog" /\ pc'[p] = "catalog") =>
         /\ ensured[p] \in {"held", "minted"}
         /\ accessToken # None
         /\ sentTok'[p] = Some(accessToken[1].token)]_vars

\* A page request is under way with the held token.
C4_Witness ==
  \E p \in Callers :
    /\ pc[p] = "catalog" /\ nextCur[p] # None
    /\ accessToken # None /\ sentTok[p] = Some(accessToken[1].token)

\* C5: when the mint fails with every strategy exhausted, the operation that
\* triggered it fails with the authentication error: it returns neither null
\* nor a result.
C5_MintFailurePropagates ==
  [][\A p \in Callers :
       (pc[p] = "html" /\ pc'[p] = "done") => result'[p].kind = "error"]_vars

\* C6: with a valid token, getTrack, getAlbum and getPlaylist return null, and
\* do not throw, when their first catalog request fails (transport error or
\* non-2xx status).
C6_NullOnFirstFailure ==
  \A p \in Callers :
    ( /\ pc[p] = "done" /\ op[p] \in {"getTrack", "getAlbum", "getPlaylist"}
      /\ served[p] = <<>> /\ lastReply[p] = "failed" )
    => result[p] = NullResult

\* getAlbum ended on the failure of its first request.
C6_Witness ==
  \E p \in Callers :
    /\ pc[p] = "done" /\ op[p] = "getAlbum"
    /\ served[p] = <<>> /\ lastReply[p] = "failed"
    /\ result[p] = NullResult

\* C7: with credentials, getRecommendations issues no HTTP request, neither for
\* a token nor for the catalog, whatever token is held: it has ended as soon as
\* it is called.
C7_NoRequest ==
  \A p \in Callers :
    (useCredentials /\ op[p] = "getRecommendations") =>
      /\ pc[p] = "done"
      /\ lastReply[p] = "none" /\ sentTok[p] = None /\ ensured[p] = "no"

\* getRecommendations has ended on an instance with credentials that holds a
\* token minted for another caller.
C7_Witness ==
  \E p \in Callers :
    /\ useCredentials /\ op[p] = "getRecommendations" /\ pc[p] = "done"
    /\ accessToken # None

\* C8: with credentials, getRecommendations fails with an explicit
\* unsupported-operation error that the caller can tell from the null of a
\* failed request.
C8_ExplicitError ==
  \A p \in Callers :
    (useCredentials /\ op[p] = "getRecommendations" /\ pc[p] = "done") =>
      result[p] # NullResult

C10_PagesConcatenated ==
  \A p \in Callers :
    LET all == Flatten(served[p]) IN
    ( /\ pc[p] = "done" /\ op[p] \in PagedOps /\ lastReply[p] = "ok"
      /\ headerOk[p] /\ all # <<>>
      /\ \A i \in 1..Len(all) : WellFormed(all[i]) )
    => /\ result[p].kind = "collection"
       /\ Len(result[p].tracks) = Len(all)
       /\ \A i \in 1..Len(all) : result[p].tracks[i].id = i

\* getPlaylist returned five tracks served as pages of two, two and one.
C10_Witness ==
  \E p \in Callers :
    /\ pc[p] = "done" /\ op[p] = "getPlaylist" /\ lastReply[p] = "ok"
    /\ Len(served[p]) = 3
    /\ Len(served[p][1]) = 2 /\ Len(served[p][2]) = 2 /\ Len(served[p][3]) = 1
    /\ result[p].kind = "collection" /\ Len(result[p].tracks) = 5

\* C11 as stated: when the fetch of page N >= 2 fails, getPlaylist / getAlbum
\* return a non-null record with the valid entries of pages 1..N-1 in order
\* (payloads from which a record can be built: header fields present, every
\* valid playlist entry with its album).
C11_PartialNeverNull ==
  \A p \in Callers :
    LET all == Flatten(served[p])
        Valid(m) == Has(m, "name") /\ m.name # "" /\ Has(m, "artists")
        kept == SelectSeq(all, Valid)
    IN ( /\ pc[p] = "done" /\ op[p] \in PagedOps
         /\ lastReply[p] = "failed" /\ served[p] # <<>>
         /\ headerOk[p]
         /\ \A i \in 1..Len(kept) : Has(kept[i], "album") )
       => /\ result[p].kind = "collection"
          /\ Len(result[p].tracks) = Len(kept)
          /\ \A i \in 1..Len(kept) : result[p].tracks[i].id = kept[i].id

\* C11: when the fetch of page N >= 2 fails, pagination stops, no page after N
\* is requested, and getPlaylist / getAlbum return what pages 1..N-1 give: the
\* record of their valid entries in order when there is one and the record can
\* be built, null otherwise.
C11_PartialAsLastPage ==
  \A p \in Callers :
    LET all == Flatten(served[p])
        Valid(m) == Has(m, "name") /\ m.name # "" /\ Has(m, "artists")
        kept == SelectSeq(all, Valid)
        buildable == /\ headerOk[p]
                     /\ op[p] = "getPlaylist" => \A i \in 1..Len(kept) : Has(kept[i], "album")
    IN ( /\ pc[p] = "done" /\ op[p] \in PagedOps
         /\ lastReply[p] = "failed" /\ served[p] # <<>> )
       => /\ nextCur[p] = Some(Len(served[p]) + 1)
          /\ sentTok[p] = None
          /\ IF kept # <<>> /\ buildable
               THEN /\ result[p].kind = "collection"
                    /\ Len(result[p].tracks) = Len(kept)
                    /\ \A i \in 1..Len(kept) : result[p].tracks[i].id = kept[i].id
               ELSE result[p] = NullResult

\* getPlaylist returned the four tracks of two pages after its third page
\* failed.
C11_Witness ==
  \E p \in Callers :
    /\ pc[p] = "done" /\ op[p] = "getPlaylist" /\ lastReply[p] = "failed"
    /\ Len(served[p]) = 2 /\ nextCur[p] = Some(3)
    /\ result[p].kind = "collection" /\ Len(result[p].tracks) = 4

\* C12: the tracks getPlaylist / getAlbum return are the accumulated raw
\* entries without those that lack a name (none, or an empty one) or an artist
\* list: as many as the raw entries minus the lacking ones, each lacking entry
\* removing itself only, the others in their relative order.
C12_FilterRemovesExactly ==
  \A p \in Callers :
    LET all == Flatten(served[p])
        Lacks(m) == ~Has(m, "name") \/ m.name = "" \/ ~Has(m, "artists")
        Keeps(m) == ~Lacks(m)
        rest == SelectSeq(all, Keeps)
    IN (pc[p] = "done" /\ op[p] \in PagedOps /\ result[p].kind = "collection")
       => /\ Len(result[p].tracks) =
               Len(all) - Cardinality({i \in 1..Len(all) : Lacks(all[i])})
          /\ \A i \in 1..Len(rest) : result[p].tracks[i].id = rest[i].id

\* A collection of at least three raw entries, one without artist list and not
\* the last, was returned as one track fewer.
C12_Witness ==
  \E p \in Callers :
    LET all == Flatten(served[p]) IN
    /\ pc[p] = "done" /\ op[p] \in PagedOps /\ result[p].kind = "collection"
    /\ Len(all) >= 3
    /\ \E i \in 1..(Len(all) - 1) : ~Has(all[i], "artists")
    /\ Len(result[p].tracks) = Len(all) - 1

\* C13: every record an operation returns (the track of getTrack, each hit of
\* search / getRecommendations, each track of getPlaylist / getAlbum) has a
\* non-empty name and a non-empty artist list.
C13_RecordsComplete ==
  \A p \in Callers :
    LET Complete(r) == /\ Has(r, "name") /\ r.name # ""
                       /\ Has(r, "artists") /\ r.artists # <<>>
        r == result[p]
    IN pc[p] = "done" =>
         /\ r.kind = "record" => Complete(r.track)
         /\ r.kind = "collection" => \A i \in 1..Len(r.tracks) : Complete(r.tracks[i])
         /\ r.kind = "list" =>
              \A i \in 1..Len(r.items) :
                r.items[i].title \notin {Undef, ""} /\ r.items[i].artist # <<>>

\* C14: once the first-page request of getPlaylist / getAlbum has succeeded
\* (with the record's header fields present), the operation returns null if and
\* only if the first page has no item or no entry with name and artists remains
\* after pagination; otherwise it returns a record with at least one track.
C14_NullIffNothingValid ==
  \A p \in Callers :
    LET all == Flatten(served[p])
        Valid(m) == Has(m, "name") /\ m.name # "" /\ Has(m, "artists")
        nothing == served[p][1] = <<>> \/ \A i \in 1..Len(all) : ~Valid(all[i])
    IN (pc[p] = "done" /\ op[p] \in PagedOps /\ served[p] # <<>> /\ headerOk[p])
       => IF nothing THEN result[p] = NullResult
          ELSE result[p].kind = "collection" /\ Len(result[p].tracks) >= 1

C16_RefreshAtMostOnce == \A p \in Callers : mint[p].refreshes <= 1

\* A mint has refreshed once, has seen the refreshed pool fail as well, and is
\* at the fallback without a second refresh.
C16_Witness ==
  \E p \in Callers :
    /\ pc[p] = "html" /\ mint[p].refreshes = 1
    /\ mint[p].pool # None /\ mint[p].evicts > Len(mint[p].pool[1])

\* C17 as stated: without credentials, when the pool's one secret has failed and
\* the one secret of the refreshed pool has failed too, the mint fails: no token
\* is obtained and the operation ends.
C17_SecondExhaustionFatal ==
  [][\A p \in Callers :
       LET h == mint[p] IN
       ( /\ pc[p] = "html" /\ pc'[p] # "html"
         /\ h.pool # None /\ Len(h.pool[1]) = 1
         /\ h.fails = 2 /\ h.refreshes = 1 )
       => pc'[p] = "done" /\ accessToken' = accessToken]_vars

\* C17: without credentials, when the pool's one secret has failed and the one
\* secret of the refreshed pool fails too, the TOTP path is over (no further
\* secret, no further refresh) and the web player's page is fetched; the mint
\* fails exactly when that fallback fails, and stores the page's token
\* otherwise.
C17_SecondExhaustionEndsTotp ==
  [][\A p \in Callers :
       LET h == mint[p]
           once == h.pool # None /\ Len(h.pool[1]) = 1 /\ h.refreshes = 1
       IN /\ ( /\ pc[p] = "stime" /\ pc'[p] # "stime"
               /\ once /\ h.fails = 1 /\ Len(cachedSecrets[1]) = 1 )
             => pc'[p] \in {"exchange", "html"}
          /\ ( /\ pc[p] = "html" /\ pc'[p] # "html"
               /\ once /\ h.fails = 2 )
             => \/ pc'[p] = "done" /\ accessToken' = accessToken
                \/ /\ pc'[p] = "send"
                   /\ accessToken' # None /\ accessToken'[1].src = "html"]_vars

\* The pool's one secret and the refreshed pool's one secret have failed: the
\* mint is at the fallback.
C17_Witness ==
  \E p \in Callers :
    LET h == mint[p] IN
    /\ pc[p] = "html" /\ h.pool # None /\ Len(h.pool[1]) = 1
    /\ h.fails = 2 /\ h.evicts = 2 /\ h.refreshes = 1
    /\ cachedSecrets = Some(<<>>)

\* C18: without credentials, requestToken throws only after every strategy was
\* tried and failed in that mint: the page was fetched (the throw comes from
\* getTokenFallback), the forced refresh was made, and no secret is left in the
\* pool.
C18_FailsOnlyWhenExhausted ==
  [][\A p \in Callers :
       (~useCredentials /\ pc[p] = "html" /\ pc'[p] = "done") =>
         /\ mint[p].refreshes = 1
         /\ cachedSecrets = None \/ cachedSecrets = Some(<<>>)]_vars

\* C19: with credentials, a failed token exchange makes the mint fail at once:
\* the web player's page is never fetched and the held token, if any, comes
\* from the client-credentials exchange.
C19_NoFallbackWithCredentials ==
  useCredentials =>
    /\ \A p \in Callers : pc[p] \notin {"html", "registry", "stime", "refresh"}
    /\ accessToken # None => accessToken[1].src = "credentials"

\* C20: useCredentials is true exactly when the constructor was given a
\* non-empty clientId and a non-empty clientSecret, in every state the instance
\* goes through, and the token exchange follows it: the TOTP path is taken and
\* a web-player token exchanged only without credentials, a client-credentials
\* token only with them.
C20_ModeFixedAtConstruction ==
  /\ useCredentials <=>
       /\ credentials.clientId \notin {None, Some("")}
       /\ credentials.clientSecret \notin {None, Some("")}
  /\ \A p \in Callers : pc[p] \in {"registry", "stime", "refresh"} => ~useCredentials
  /\ accessToken # None =>
       /\ accessToken[1].src = "credentials" => useCredentials
       /\ accessToken[1].src = "totp" => ~useCredentials

\* An instance given a clientId and an empty clientSecret holds a web-player
\* token after a mint and a catalog operation that has ended.
C20_Witness ==
  /\ credentials = [clientId |-> Some("x"), clientSecret |-> Some("")]
  /\ ~useCredentials
  /\ accessToken # None /\ accessToken[1].src = "totp"
  /\ \E p \in Callers : pc[p] = "done"

\* C21: getRelatedTracks calls getRecommendations only on an instance without
\* credentials, so that no recommendations request is ever made with them, and
\* it calls the artist search whenever credentials are in use or the
\* recommendations came back null or empty (or were not asked for, the history
\* giving no track id).
C21_RecommendationsOnlyAnonymous ==
  \A p \in Callers :
    LET r == related[p]
        asked == \E i \in 1..Len(r.called) : r.called[i] = "getRecommendations"
        searched == \E i \in 1..Len(r.called) : r.called[i] = "search"
    IN /\ (asked \/ op[p] = "getRecommendations") => ~useCredentials
       /\ r.stage = "done" =>
            /\ useCredentials => r.called = <<"search">>
            /\ (~asked \/ (r.recs # None /\ NoneRelated(r.recs[1]))) => searched
            /\ (asked /\ r.recs # None /\ ~NoneRelated(r.recs[1])) => ~searched

\* getRelatedTracks has returned on an instance without credentials after the
\* recommendations came back empty and the artist search was made.
C21_Witness ==
  \E p \in Callers :
    /\ ~useCredentials /\ related[p].stage = "done"
    /\ related[p].called = <<"getRecommendations", "search">>
    /\ related[p].recs = Some([kind |-> "list", items |-> <<>>])

\* C22: without credentials, when the fetch of the token URL built from the
\* selected secret fails (no JSON, JSON null, or an object lacking the token or
\* its expiry), the selected secret is evicted from the pool and the mint
\* goes back to the secret selection: it selects the next entry, or asks the
\* registry when none is left.
C22_ExchangeFailureEvicts ==
  [][\A p \in Callers :
       (~useCredentials /\ pc[p] = "exchange" /\ pc'[p] # "exchange") =>
         \/ /\ pc'[p] = "send"
            /\ accessToken' # None
            /\ accessToken'[1].token # Undef /\ accessToken'[1].expiresAfter # None
         \/ /\ selectedSecret[p] # None /\ cachedSecrets # None
            /\ cachedSecrets' = Some(RemoveFailedSecret(cachedSecrets[1], selectedSecret[p][1]))
            /\ pc'[p] \in {"stime", "registry", "refresh"}]_vars

\* C23: without credentials, the web player's page is fetched only by a mint
\* whose TOTP path has raised an error (an iteration of the secret loop threw,
\* or the fetch of the token URL did) and has stored no token; a token URL
\* answered with a token ends the mint without the page being fetched; and the
\* fallback selects no secret and leaves the secret cache, its stamp and the
\* loop's bookkeeping as they are.
C23_FallbackLastAndApart ==
  [][\A p \in Callers :
       /\ (~useCredentials /\ pc[p] # "html" /\ pc'[p] = "html") =>
            /\ pc[p] \in {"registry", "stime", "refresh", "exchange"}
            /\ pc[p] = "exchange" \/ mint'[p].fails >= 1
            /\ accessToken' = accessToken
       /\ (~useCredentials /\ pc[p] = "exchange" /\ accessToken' # accessToken) =>
            pc'[p] = "send" /\ ensured'[p] = "minted"
       /\ (~useCredentials /\ pc[p] = "html" /\ pc'[p] # "html") =>
            /\ pc'[p] \in {"send", "done"}
            /\ selectedSecret[p] = None /\ selectedSecret'[p] = None
            /\ cachedSecrets' = cachedSecrets /\ secretsCacheTime' = secretsCacheTime
            /\ hasRefreshedSecrets' = hasRefreshedSecrets
            /\ mint'[p].evicts = 0 /\ mint'[p].refreshes = 0]_vars

\* A mint whose token URL was refused has ended with the page's token, the
\* refused secret still in the pool.
C23_Witness ==
  \E p \in Callers :
    /\ ~useCredentials /\ pc[p] = "send" /\ ensured[p] = "minted"
    /\ accessToken # None /\ accessToken[1].src = "html"
    /\ cachedSecrets # None /\ cachedSecrets[1] # <<>>
    /\ cachedSecrets[1][1] \in mint[p].failed

\* C24: without credentials, the secret selected is always the first entry of
\* the cached pool, an eviction leaves the other entries in their relative
\* order, and a secret that failed (its iteration threw, or its token URL was
\* refused) is not selected again before the pool is replaced.
C24_InOrderNeverAgain ==
  [][\A p \in Callers :
       /\ pc'[p] = "stime" =>
            /\ cachedSecrets' # None /\ cachedSecrets'[1] # <<>>
            /\ selectedSecret'[p] = Some(cachedSecrets'[1][1])
            /\ selectedSecret'[p][1] \notin mint'[p].failed
       /\ mint'[p].evicts > mint[p].evicts =>
            LET Stays(x) == x # cachedSecrets[1][1]
            IN cachedSecrets' = Some(SelectSeq(cachedSecrets[1], Stays))]_vars

C26_CachedWithinTtl ==
  [][\A p \in Callers :
       LET fresh == cachedSecrets # None /\ now - secretsCacheTime < CACHE_DURATION
           freshAfter == cachedSecrets' # None /\ now - secretsCacheTime' < CACHE_DURATION
       IN /\ (pc[p] = "ensure" /\ pc'[p] \in Minting) =>
               IF fresh
                 THEN /\ pc'[p] # "registry"
                      /\ cachedSecrets' = cachedSecrets /\ secretsCacheTime' = secretsCacheTime
                      /\ cachedSecrets[1] # <<>> =>
                           pc'[p] = "stime" /\ selectedSecret'[p] = Some(cachedSecrets[1][1])
                 ELSE pc'[p] = "registry" /\ gsNow'[p] = now
          /\ (now' = now /\ pc[p] \in {"stime", "refresh"} /\ pc'[p] = "stime") =>
               freshAfter /\ selectedSecret'[p] = Some(cachedSecrets'[1][1])
          /\ (pc[p] # "registry" /\ pc'[p] = "registry") =>
               ~freshAfter /\ gsNow'[p] = now
          /\ (pc[p] = "registry" /\ pc'[p] # "registry") =>
               LET got == FetchSecretsFromRemote(mint'[p].reg[1])
               IN got # Fail =>
                    /\ cachedSecrets' = Some(got.secrets)
                    /\ secretsCacheTime' = gsNow[p]
                    /\ pc'[p] = "stime" /\ selectedSecret'[p] = Some(got.secrets[1])]_vars

\* A mint that started with a fresh cache found it CACHE_DURATION old in a later
\* iteration, fetched the registry, and runs on the fetched pool, stamped with
\* the time read before the fetch.
C26_Witness ==
  \E p \in Callers :
    /\ pc[p] = "stime" /\ mint[p].pool # None /\ mint[p].refreshes = 0
    /\ mint[p].reg # None /\ FetchSecretsFromRemote(mint[p].reg[1]) # Fail
    /\ secretsCacheTime = CACHE_DURATION
    /\ cachedSecrets = Some(mint[p].reg[1].array)

\* C27: when the cache has expired and the registry fetch fails, getSecrets
\* returns the old cached pool (its head is selected) and leaves the cached
\* pool and its stamp as they were; getSecrets throws only when no cache was
\* ever stored.
C27_StaleOnFetchFailure ==
  [][\A p \in Callers :
       ( /\ pc[p] = "registry" /\ pc'[p] # "registry"
         /\ FetchSecretsFromRemote(mint'[p].reg[1]) = Fail ) =>
         /\ secretsCacheTime' = secretsCacheTime
         /\ cachedSecrets' = cachedSecrets
         /\ IF cachedSecrets = None
              THEN /\ mint'[p].fails = mint[p].fails + 1
                   /\ pc'[p] \in {"refresh", "html"}
              ELSE cachedSecrets[1] # <<>> =>
                     /\ mint'[p].fails = mint[p].fails
                     /\ pc'[p] = "stime"
                     /\ selectedSecret'[p] = Some(cachedSecrets[1][1])]_vars

\* The registry fetch failed on an expired cache and the loop runs on the old
\* pool, its stamp unchanged.
C27_Witness ==
  \E p \in Callers :
    /\ pc[p] = "stime"
    /\ mint[p].reg # None /\ FetchSecretsFromRemote(mint[p].reg[1]) = Fail
    /\ cachedSecrets # None /\ cachedSecrets[1] # <<>>
    /\ now - secretsCacheTime >= CACHE_DURATION
    /\ selectedSecret[p] = Some(cachedSecrets[1][1])

\* C28: a registry fetch (by getSecrets or by refreshSecrets) succeeds, the
\* cache becoming the payload, exactly when the payload is a non-empty array
\* whose entries all have a version and a secret array; otherwise, a single
\* invalid entry included, it fails and the cache stays as it was.  So the
\* cached pool is non-empty and holds only valid entries right after every
\* successful fetch or refresh.
C28_AllOrNothing ==
  [][\A p \in Callers :
       (pc[p] \in {"registry", "refresh"} /\ pc'[p] # pc[p]) =>
         LET r == mint'[p].reg[1]
             wellShaped == /\ "array" \in DOMAIN r
                           /\ r.array # <<>>
                           /\ \A i \in 1..Len(r.array) :
                                {"version", "secret"} \subseteq DOMAIN r.array[i]
         IN IF wellShaped
              THEN /\ cachedSecrets' = Some(r.array)
                   /\ Len(cachedSecrets'[1]) >= 1
                   /\ \A i \in 1..Len(cachedSecrets'[1]) : ValidSecret(cachedSecrets'[1][i])
              ELSE /\ cachedSecrets' = cachedSecrets
                   /\ secretsCacheTime' = secretsCacheTime]_vars

\* The registry answered getSecrets with a valid entry followed by an invalid
\* one: the fetch failed as a whole, no cache is stored, and the loop has gone
\* to its forced refresh.
C28_Witness ==
  \E p \in Callers :
    /\ pc[p] = "refresh" /\ cachedSecrets = None
    /\ mint[p].reg # None /\ "array" \in DOMAIN mint[p].reg[1]
    /\ Len(mint[p].reg[1].array) = 2
    /\ ValidSecret(mint[p].reg[1].array[1]) /\ ~ValidSecret(mint[p].reg[1].array[2])

\* C29 as stated: a call of removeFailedSecret removes exactly one entry of the
\* cached pool, one that matches the failed secret by version and bytes: the
\* pool is one entry shorter, the others stay in their order, and the cache's
\* stamp is unchanged.
C29_EvictsExactlyOne ==
  [][\A p \in Callers :
       mint'[p].evicts = mint[p].evicts + 1 =>
         LET pool == cachedSecrets[1]
             Without(i) == [j \in 1..(Len(pool) - 1) |-> IF j < i THEN pool[j] ELSE pool[j + 1]]
         IN /\ Len(cachedSecrets'[1]) = Len(pool) - 1
            /\ \E i \in 1..Len(pool) : pool[i] = pool[1] /\ cachedSecrets'[1] = Without(i)
            /\ secretsCacheTime' = secretsCacheTime]_vars

\* C29: a call of removeFailedSecret removes from the cached pool every entry
\* that matches the failed secret by version and bytes, and no other: the pool
\* is shorter by the number of matching entries (by one when that secret occurs
\* once), entries that differ in version or in bytes stay in their order, and
\* the cache's stamp is unchanged.
C29_EvictsEveryMatch ==
  [][\A p \in Callers :
       mint'[p].evicts = mint[p].evicts + 1 =>
         LET pool == cachedSecrets[1]
             failedSecret == pool[1]
             Matches(x) == x.version = failedSecret.version /\ x.secret = failedSecret.secret
             Differs(x) == ~Matches(x)
             matching == Cardinality({i \in 1..Len(pool) : Matches(pool[i])})
         IN /\ cachedSecrets'[1] = SelectSeq(pool, Differs)
            /\ Len(cachedSecrets'[1]) = Len(pool) - matching
            /\ matching = 1 => cachedSecrets'[1] = Tail(pool)
            /\ secretsCacheTime' = secretsCacheTime]_vars

\* One eviction has taken a pool of three entries, the failed secret occurring
\* twice, to the one other entry.
C29_Witness ==
  \E p \in Callers :
    /\ mint[p].pool # None /\ Len(mint[p].pool[1]) = 3
    /\ mint[p].pool[1][1] = mint[p].pool[1][2] /\ mint[p].pool[1][3] # mint[p].pool[1][1]
    /\ mint[p].evicts = 1 /\ mint[p].refreshes = 0
    /\ cachedSecrets = Some(<<mint[p].pool[1][3]>>)

\* C30: refreshSecrets fetches the registry whatever the cache's age; when the
\* fetch succeeds the cache becomes the fetched pool as a whole and its stamp
\* the time of the reply, and the loop goes on with the new pool; when it
\* fails the error leaves refreshSecrets, the cache and its stamp stay as they
\* were, and the loop gives up.
C30_RefreshReplacesOrThrows ==
  [][\A p \in Callers :
       (pc[p] = "refresh" /\ pc'[p] # "refresh") =>
         LET got == FetchSecretsFromRemote(mint'[p].reg[1])
         IN IF got # Fail
              THEN /\ cachedSecrets' = Some(got.secrets)
                   /\ secretsCacheTime' = now
                   /\ pc'[p] = "stime" /\ hasRefreshedSecrets'[p]
                   /\ selectedSecret'[p] = Some(got.secrets[1])
              ELSE /\ cachedSecrets' = cachedSecrets
                   /\ secretsCacheTime' = secretsCacheTime
                   /\ pc'[p] = "html"]_vars

\* A mint that started on a cache younger than CACHE_DURATION has exhausted it
\* and refreshed: the registry was fetched although the cache had not expired,
\* and the loop runs on the fetched pool, stamped with the time of the reply.
C30_Witness ==
  \E p \in Callers :
    /\ pc[p] = "stime" /\ hasRefreshedSecrets[p]
    /\ mint[p].pool # None /\ mint[p].refreshes = 1
    /\ mint[p].reg # None /\ FetchSecretsFromRemote(mint[p].reg[1]) # Fail
    /\ cachedSecrets = Some(mint[p].reg[1].array)
    /\ now > 0 /\ now < CACHE_DURATION /\ secretsCacheTime = now

\* C31: during a mint, refreshSecrets is invoked only when the cached pool is
\* absent or empty (and was not invoked before in that mint); as long as an
\* entry is left in the cached pool after a failed iteration, the loop goes on
\* with it (or with getSecrets' registry fetch when the cache has expired) and
\* does not refresh.
C31_RefreshOnlyWhenExhausted ==
  [][\A p \in Callers :
       /\ (pc[p] # "refresh" /\ pc'[p] = "refresh") =>
            /\ cachedSecrets' = None \/ cachedSecrets' = Some(<<>>)
            /\ ~hasRefreshedSecrets[p]
       /\ ( /\ pc[p] \in {"registry", "stime"} /\ pc'[p] # pc[p]
            /\ cachedSecrets' # None /\ cachedSecrets'[1] # <<>> ) =>
            pc'[p] \in {"stime", "registry", "exchange"}]_vars

\* A mint that started on a fresh pool of two distinct secrets has seen both
\* fail, has evicted both, and waits for the forced refresh, the pool empty.
C31_Witness ==
  \E p \in Callers :
    /\ pc[p] = "refresh" /\ cachedSecrets = Some(<<>>)
    /\ mint[p].pool # None /\ Len(mint[p].pool[1]) = 2
    /\ mint[p].pool[1][1] # mint[p].pool[1][2]
    /\ mint[p].failed = {mint[p].pool[1][1], mint[p].pool[1][2]}
    /\ mint[p].evicts = 2 /\ mint[p].refreshes = 1

\* C32: within one getPlaylist / getAlbum call, a catalog request is
\* outstanding only while the call waits for its reply, so at most one at a
\* time; the request for page k + 1 is issued only after the reply of page k
\* has been received and its items appended to the accumulated entries; and
\* the pages are requested in cursor order, each with the cursor the page
\* before carried.
C32_PagesSequential ==
  [][\A p \in Callers :
       op'[p] \in PagedOps =>
         /\ sentTok'[p] # None <=> pc'[p] = "catalog"
         /\ (pc[p] # "catalog" /\ pc'[p] = "catalog") =>
              /\ sentTok[p] = None
              /\ t[p] = Flatten(served[p])
              /\ IF served[p] = <<>> THEN nextCur[p] = None
                 ELSE lastReply[p] = "ok" /\ nextCur[p] = Some(Len(served[p]) + 1)
         /\ (pc[p] = "catalog" /\ pc'[p] = "ensure") =>
              /\ Len(served'[p]) = Len(served[p]) + 1
              /\ t'[p] = Flatten(served'[p])
              /\ nextCur'[p] = Some(Len(served'[p]) + 1)]_vars

\* The request for the third page is outstanding, the four items of the first
\* two pages accumulated.
C32_Witness ==
  \E p \in Callers :
    /\ op[p] \in PagedOps /\ pc[p] = "catalog" /\ sentTok[p] # None
    /\ nextCur[p] = Some(3) /\ Len(served[p]) = 2
    /\ Len(t[p]) = 4 /\ t[p] = Flatten(served[p])

\* C33: getPlaylist and getAlbum terminate whenever each request returns or
\* fails, whatever cursors the pages carry: a call that has started always
\* comes to its return, and a page fetch that fails ends it at once.
C33_PaginationTerminates ==
  /\ \A p \in Callers : (op[p] \in PagedOps /\ pc[p] # "done") ~> (pc[p] = "done")
  /\ [][\A p \in Callers :
          (op[p] \in PagedOps /\ pc[p] = "catalog" /\ lastReply'[p] # "ok") =>
            pc'[p] = "done"]_vars

\* C34: the signing key is a function of the selected secret alone: its
\* transformed bytes are secret[i] XOR ((i mod version) + 9) for every byte
\* index i (from zero), joined and hex-encoded, whatever the cache and the held
\* token are; and the token URL carries the two codes of that key for its cTime
\* and its sTime, with the selected secret's version.
C34_KeyFromSecretAlone ==
  \A p \in Callers :
    LET sec == selectedSecret[p][1]
        transformed == [i \in 0..(Len(sec.secret) - 1) |->
                          Xor(sec.secret[i + 1], (i % sec.version) + 9)]
        key == HexOfDigits(Join([j \in 1..Len(sec.secret) |-> transformed[j - 1]]))
    IN /\ pc[p] = "stime" =>
            /\ selectedSecret[p] # None
            /\ mint[p].key = Some(key)
       /\ (pc[p] = "exchange" /\ ~useCredentials) =>
            /\ selectedSecret[p] # None /\ mint[p].url # None
            /\ mint[p].url[1].totp = Totp(key, mint[p].url[1].cTime)
            /\ mint[p].url[1].totpServer = Totp(key, mint[p].url[1].sTime * 1000)
            /\ mint[p].url[1].buildVer = sec.version

\* The token URL is built from the secret of version 2 and bytes 10, 20, whose
\* transformed bytes 3, 30 give the key 333330, on an instance that holds an
\* expired token and a cache of several entries; the server's clock is one
\* period ahead.
C34_Witness ==
  \E p \in Callers :
    /\ pc[p] = "exchange" /\ accessToken # None
    /\ cachedSecrets # None /\ Len(cachedSecrets[1]) >= 2
    /\ selectedSecret[p] = Some([version |-> 2, secret |-> <<10, 20>>])
    /\ mint[p].url # None
    /\ mint[p].url[1].totp = [key |-> <<3, 3, 3, 3, 3, 0>>, counter |-> 0]
    /\ mint[p].url[1].totpServer = [key |-> <<3, 3, 3, 3, 3, 0>>, counter |-> 1]

\* C35: whenever ensureValidToken has completed without throwing (fetchData is
\* about to send its request), the instance holds a token with a defined value
\* and a defined expiry that has not passed.
C35_CompleteTokenAfterEnsure ==
  \A p \in Callers :
    (pc[p] = "send" /\ ensured[p] \in {"held", "minted"}) =>
      /\ accessToken # None
      /\ accessToken[1].token # Undef
      /\ accessToken[1].expiresAfter # None
      /\ now <= accessToken[1].expiresAfter[1]

\* C36: a mint that fails leaves the held token as it was before the mint:
\* every step of requestToken that goes on with the mint or ends it with a
\* throw leaves the token alone, and the token is assigned, as a whole, only by
\* the step that ends the mint successfully, after the token URL's reply or the
\* scraped page.
C36_FailedMintKeepsToken ==
  [][\A p \in Callers :
       /\ (pc[p] = "ensure" /\ pc'[p] \in Minting) => accessToken' = accessToken
       /\ (pc[p] \in Minting /\ pc'[p] # "send") => accessToken' = accessToken
       /\ (pc[p] \in Minting /\ pc'[p] = "send") =>
            /\ pc[p] \in {"exchange", "html"}
            /\ accessToken' # None
            /\ DOMAIN accessToken'[1] = {"token", "expiresAfter", "src"}
            /\ pc[p] = "html" => accessToken'[1].src = "html"]_vars

\* getPlaylist / getAlbum ended after its first page, which carried a cursor:
\* the mint before the second page failed, and the expired token is still held.
C36_Witness ==
  \E p \in Callers :
    /\ pc[p] = "done" /\ op[p] \in PagedOps
    /\ lastReply[p] = "ok" /\ Len(served[p]) = 1 /\ nextCur[p] = Some(2)
    /\ accessToken # None /\ accessToken[1].expiresAfter # None
    /\ now > accessToken[1].expiresAfter[1]

\* C37: the entries an iteration's failure removes from the cached pool are
\* those of the secret that iteration had selected, also when another mint on
\* the same instance has evicted or replaced entries meanwhile.
C37_EvictsWhatWasTried ==
  [][\A p \in Callers :
       ( /\ pc[p] = "stime"
         /\ pc'[p] # "stime" \/ selectedSecret'[p] # selectedSecret[p]
         /\ cachedSecrets' # cachedSecrets ) =>
         /\ cachedSecrets # None
         /\ cachedSecrets' = Some(RemoveFailedSecret(cachedSecrets[1], selectedSecret[p][1]))]_vars

\* C38: a mint that starts with an empty cached pool that has not expired asks
\* the registry by the forced refresh before anything else, gives up (fetches
\* the web player's page) only after that refresh, and, when the refresh
\* answers a pool whose first secret works, builds its token URL from that
\* secret.
C38_EmptyPoolRefreshes ==
  [][\A p \in Callers :
       LET emptied == mint'[p].pool = Some(<<>>) IN
       /\ ( /\ pc[p] = "ensure" /\ pc'[p] \in Minting
            /\ cachedSecrets = Some(<<>>) /\ now - secretsCacheTime < CACHE_DURATION ) =>
            /\ emptied /\ pc'[p] = "refresh"
            /\ mint'[p].refreshes = 1 /\ mint'[p].evicts = 0
       /\ (emptied /\ pc[p] # "html" /\ pc'[p] = "html") => mint'[p].refreshes = 1
       /\ (emptied /\ pc[p] = "refresh" /\ pc'[p] # "refresh") =>
            IF FetchSecretsFromRemote(mint'[p].reg[1]) # Fail
              THEN /\ pc'[p] = "stime"
                   /\ cachedSecrets' = Some(mint'[p].reg[1].array)
                   /\ selectedSecret'[p] = Some(mint'[p].reg[1].array[1])
              ELSE pc'[p] = "html"
       /\ (emptied /\ pc[p] = "stime" /\ pc'[p] = "exchange") =>
            /\ selectedSecret'[p] = selectedSecret[p]
            /\ mint'[p].url # None
            /\ mint'[p].url[1].buildVer = selectedSecret[p][1].version
            /\ mint'[p].url[1].totp.key =
                 CalculateToken(selectedSecret[p][1].secret, selectedSecret[p][1].version)]_vars

\* A mint that started on an empty pool within its TTL has refreshed once and
\* waits for the token URL it built from the first secret of the refreshed
\* pool, no iteration of a secret having failed.
C38_Witness ==
  \E p \in Callers :
    /\ pc[p] = "exchange" /\ mint[p].pool = Some(<<>>)
    /\ mint[p].refreshes = 1 /\ mint[p].evicts = 0 /\ mint[p].failed = {}
    /\ cachedSecrets # None /\ cachedSecrets[1] # <<>>
    /\ selectedSecret[p] = Some(cachedSecrets[1][1])
    /\ mint[p].url # None /\ mint[p].url[1].buildVer = cachedSecrets[1][1].version

\* C39 as stated: when the held token has expired before a page request of
\* getPlaylist / getAlbum, a mint is made before that request; when the mint
\* fails, pagination stops and the operation returns a non-null record with the
\* valid entries of the pages accumulated so far (payloads from which a record
\* can be built: header fields present, every valid playlist entry with its
\* album).
C39_MintFailureKeepsPages ==
  [][\A p \in Callers :
       LET kept == SelectSeq(t[p], NameAndArtists) IN
       /\ ( /\ pc[p] = "ensure" /\ pc'[p] # "ensure" /\ nextCur[p] # None
            /\ accessToken # None /\ accessToken[1].expiresAfter # None
            /\ now > accessToken[1].expiresAfter[1] ) => pc'[p] \in Minting
       /\ ( /\ pc[p] = "html" /\ pc'[p] = "done" /\ nextCur[p] # None
            /\ headerOk[p] /\ \A i \in 1..Len(kept) : Has(kept[i], "album") ) =>
            /\ result'[p].kind = "collection"
            /\ Len(result'[p].tracks) = Len(kept)
            /\ \A i \in 1..Len(kept) : result'[p].tracks[i].id = kept[i].id]_vars

\* C39: when the held token has expired before a page request of getPlaylist /
\* getAlbum, a mint is made before that request; when the mint fails,
\* pagination stops with no further request and the operation returns what the
\* pages accumulated so far give: the record of their valid entries in order
\* when there is one and the record can be built, null otherwise; it never
\* fails with an error.
C39_MintFailureAsLastPage ==
  [][\A p \in Callers :
       LET kept == SelectSeq(t[p], NameAndArtists)
           buildable == /\ headerOk[p]
                        /\ op[p] = "getPlaylist" => \A i \in 1..Len(kept) : Has(kept[i], "album")
       IN /\ ( /\ pc[p] = "ensure" /\ pc'[p] # "ensure" /\ nextCur[p] # None
               /\ accessToken # None /\ accessToken[1].expiresAfter # None
               /\ now > accessToken[1].expiresAfter[1] ) => pc'[p] \in Minting
          /\ (pc[p] = "html" /\ pc'[p] = "done" /\ nextCur[p] # None) =>
               /\ t'[p] = t[p] /\ served'[p] = served[p] /\ sentTok'[p] = None
               /\ IF kept # <<>> /\ buildable
                    THEN /\ result'[p].kind = "collection"
                         /\ Len(result'[p].tracks) = Len(kept)
                         /\ \A i \in 1..Len(kept) : result'[p].tracks[i].id = kept[i].id
                    ELSE result'[p] = NullResult]_vars

\* A paged call got its first page with the held token, which expired while
\* the call waited; the mint before the second page failed, and the call
\* returned the one track of the first page, the expired token still held.
C39_Witness ==
  \E p \in Callers :
    /\ pc[p] = "done" /\ op[p] \in PagedOps
    /\ lastReply[p] = "ok" /\ Len(served[p]) = 1 /\ nextCur[p] = Some(2)
    /\ result[p].kind = "collection" /\ Len(result[p].tracks) = 1
    /\ accessToken # None /\ accessToken[1].expiresAfter = Some(0) /\ now > 0

====
